---------------------------- MODULE Spec2Model ----------------------------
(***************************************************************************)
(* Session controller of the DOCKERI web client (the React App component   *)
(* with its localStorage conversation store, the streaming chat request    *)
(* and the upload status poller).                                          *)
(*                                                                         *)
(* Texts are sequences of tokens (characters or words).  Every handler     *)
(* runs to its first await as one step; every continuation after an await *)
(* is one step.  A handler reads the React state of the render it was      *)
(* created in,                                                             *)
(* which is the state at the time the handler is invoked; the locals of a  *)
(* running handler (newContext, convId, updatedConversations, ...) keep    *)
(* the values captured then.                                               *)
(***************************************************************************)
EXTENDS Integers, Sequences, FiniteSets, TLC

VARIABLES
    conversations,          \* React state: Conversation[]
    currentConversationId,  \* React state: string | null
    chatContext,            \* React state: Message[] (the ephemeral buffer)
    isFileUploading,        \* React state: upload-in-progress flag
    convStorage,            \* localStorage[CONV_STORAGE_KEY]
    oldChatStorage,         \* localStorage[OLD_CHAT_KEY]
    clock,                  \* environment: the latest value Date.now() returned
    navigations,            \* number of sidebar operations so far (bounded)
    faults,                 \* number of failed localStorage writes so far (bounded)
    sends,                  \* the invocations of handleSendMessage
    uploads,                \* the invocations of handleFileSelect
    deletes,                \* the invocations of handleConfirmDelete
    legacyPoll,             \* the poll session of the legacy script
    table,                  \* IndexedDB: the conversations table, by primary key
    migrationDone,          \* localStorage[MIGRATION_DONE_KEY] is set
    dbCalls,                \* the calls of the IndexedDB store's saveConversations
    dbLoads,                \* the calls of the IndexedDB store's loadConversations
    dbPuts,                 \* number of calls of the IndexedDB store's saveConversation
    lsCalls,                \* the direct calls of the localStorage store, in order
    stream                  \* the call of streamChatMessage taken alone

vars == <<conversations, currentConversationId, chatContext, isFileUploading,
          convStorage, oldChatStorage, clock, navigations, faults, sends,
          uploads, deletes, legacyPoll, table, migrationDone, dbCalls, dbLoads,
          dbPuts, lsCalls, stream>>

(* the state of the IndexedDB store *)
dbVars == <<table, migrationDone, dbCalls, dbLoads, dbPuts>>

(* the state of the modules the App component does not use *)
standalone == <<legacyPoll, dbVars, lsCalls, stream>>

-----------------------------------------------------------------------------
(* Bounds of the model *)

MaxSends == 3
MaxFlows == 2
MaxChunks == 2
MaxUploads == 2
MaxPolls == 2
MaxClock == 1
MaxNavigations == 1
MaxFaults == 1
PollLimit == 4
MaxDeletes == 1
MaxBegun == 2
MaxCalls == 2
MaxLoads == 2
MaxPuts == 1
MaxLog == 3
MaxStarted == 3
StoreEpoch == 4
MaxValues == 3

(* Program constants *)

initialInterval == 2000
maxInterval == 5000
maxTimeout == 1200000

-----------------------------------------------------------------------------
(* Values *)

null == <<>>

Digit == <<"0", "1", "2", "3", "4", "5", "6", "7", "8", "9">>

RECURSIVE toString(_)
toString(n) == IF n < 10 THEN <<Digit[n + 1]>>
               ELSE toString(n \div 10) \o <<Digit[(n % 10) + 1]>>

RECURSIVE trimStart(_)
trimStart(t) == IF t # <<>> /\ Head(t) = " " THEN trimStart(Tail(t)) ELSE t

RECURSIVE trimEnd(_)
trimEnd(t) == IF t # <<>> /\ t[Len(t)] = " "
              THEN trimEnd(SubSeq(t, 1, Len(t) - 1)) ELSE t

trim(t) == trimEnd(trimStart(t))

NoStatus == [status |-> "none", message |-> <<>>, progress |-> 0]

MessagePart(text, icon) == [text |-> text, icon |-> icon]

Message(role, text, icon) ==
    [role |-> role, parts |-> <<MessagePart(text, icon)>>, uploadStatus |-> NoStatus]

Conversation(id, title, messages, createdAt) ==
    [id |-> id, title |-> title, messages |-> messages, createdAt |-> createdAt]

loadingMsg == Message("model", <<>>, "none")

Error(message) == [name |-> "Error", message |-> message]

TypeError(message) == [name |-> "TypeError", message |-> message]

getErrorMessage(error) == error.message

ErrorPrefix == <<"Error occurred", ":", " ">>

findIndex(convs, id) ==
    IF \E i \in 1..Len(convs) : convs[i].id = id
    THEN CHOOSE i \in 1..Len(convs) :
             /\ convs[i].id = id
             /\ \A j \in 1..(i - 1) : convs[j].id # id
    ELSE 0

RECURSIVE filterOut(_, _)
filterOut(convs, id) ==
    IF convs = <<>> THEN <<>>
    ELSE IF Head(convs).id = id THEN filterOut(Tail(convs), id)
         ELSE <<Head(convs)>> \o filterOut(Tail(convs), id)

mapMessages(convs, id, messages) ==
    [i \in 1..Len(convs) |->
        IF convs[i].id = id THEN [convs[i] EXCEPT !.messages = messages]
        ELSE convs[i]]


-----------------------------------------------------------------------------
(* ConversationStore on localStorage *)

Absent == [has |-> FALSE, value |-> <<>>]

Stored(value) == [has |-> TRUE, value |-> value]

(* JSON.stringify: the members that are undefined (no icon, no uploadStatus,
   no message, no progress) are left out of the text *)
member(present, field) == IF present THEN field ELSE <<>>

stringifyStatus(info) ==
    [status |-> info.status]
        @@ member(info.message # <<>>, [message |-> info.message])
        @@ member(info.progress # -1, [progress |-> info.progress])

stringifyPart(part) ==
    [text |-> part.text] @@ member(part.icon # "none", [icon |-> part.icon])

stringifyMessage(msg) ==
    [role |-> msg.role,
     parts |-> [i \in 1..Len(msg.parts) |-> stringifyPart(msg.parts[i])]]
        @@ member(msg.uploadStatus.status # "none",
                  [uploadStatus |-> stringifyStatus(msg.uploadStatus)])

JSONstringify(convs) ==
    [i \in 1..Len(convs) |->
        [id |-> convs[i].id,
         title |-> convs[i].title,
         messages |-> [k \in 1..Len(convs[i].messages) |->
                          stringifyMessage(convs[i].messages[k])],
         createdAt |-> convs[i].createdAt]]

(* JSON.parse: a member that is not in the text is undefined in the value *)
parseStatus(o) ==
    [status |-> o.status,
     message |-> IF "message" \in DOMAIN o THEN o.message ELSE <<>>,
     progress |-> IF "progress" \in DOMAIN o THEN o.progress ELSE -1]

parsePart(o) ==
    [text |-> o.text, icon |-> IF "icon" \in DOMAIN o THEN o.icon ELSE "none"]

parseMessage(o) ==
    [role |-> o.role,
     parts |-> [i \in 1..Len(o.parts) |-> parsePart(o.parts[i])],
     uploadStatus |-> IF "uploadStatus" \in DOMAIN o THEN parseStatus(o.uploadStatus)
                      ELSE NoStatus]

JSONparse(text) ==
    [i \in 1..Len(text) |->
        [id |-> text[i].id,
         title |-> text[i].title,
         messages |-> [k \in 1..Len(text[i].messages) |->
                          parseMessage(text[i].messages[k])],
         createdAt |-> text[i].createdAt]]

(* lines 6-12; the item is held as the value JSON.parse reads from its text *)
saveConversations(storage, full, convs) ==
    IF full THEN storage ELSE Stored(JSONparse(JSONstringify(convs)))

FallbackTitle(id) == <<"Chat", " ">> \o id

firstUserTitle(msgs, id) ==
    IF \E i \in 1..Len(msgs) : msgs[i].role = "user"
    THEN LET i == CHOOSE k \in 1..Len(msgs) :
                      /\ msgs[k].role = "user"
                      /\ \A j \in 1..(k - 1) : msgs[j].role # "user"
             firstUser == msgs[i]
         IN IF firstUser.parts # <<>> /\ firstUser.parts[1].text # <<>>
            THEN firstUser.parts[1].text
            ELSE FallbackTitle(id)
    ELSE FallbackTitle(id)

loadConversations(conv, old, full, now) ==
    IF conv.has
    THEN [result |-> conv.value, conv |-> conv, old |-> old]
    ELSE IF old.has
         THEN LET msgs == old.value
                  id == toString(now)
                  migrated == <<Conversation(id, firstUserTitle(msgs, id), msgs, id)>>
              IN [result |-> migrated,
                  conv |-> saveConversations(conv, full, migrated),
                  old |-> Absent]
         ELSE [result |-> <<>>, conv |-> conv, old |-> old]

-----------------------------------------------------------------------------
(* Inputs *)

Prompts == { <<" ">>, <<" ", "a", " ">> }

Decoded == { <<"x">> }

Files == { <<"f">> }

(* UploadStatusInfo; an absent message is the empty text, an absent progress -1 *)
UploadStatusInfo(status, message, progress) ==
    [status |-> status, message |-> message, progress |-> progress]

StatusResponses ==
    { UploadStatusInfo("processing", <<>>, 30),
      UploadStatusInfo("done", <<>>, 100),
      UploadStatusInfo("failed", <<"bad file">>, -1) }

(* the answers of POST /upload: data, or a rejection *)
UploadResponses ==
    { [ok |-> TRUE, task_id |-> <<"t">>, message |-> <<>>],
      [ok |-> TRUE, task_id |-> <<>>, message |-> <<"stored">>],
      [ok |-> TRUE, task_id |-> <<>>, message |-> <<>>],
      [ok |-> FALSE, task_id |-> <<>>, message |-> <<"Network Error">>] }

(* the answers of GET /upload/status: a status record, 404 or another failure *)
PollResponses ==
    { [http |-> 200, info |-> i] : i \in StatusResponses }
      \cup { [http |-> 404, info |-> NoStatus], [http |-> 0, info |-> NoStatus] }

LegacyChat == << Message("user", <<"q">>, "none"), Message("model", <<"r">>, "none") >>

InitialStorage == { <<Absent, Absent>>, <<Absent, Stored(LegacyChat)>> }

(* Date.now() never goes back: between two reads no time, one millisecond or
   one long pause passes. *)
LastInstant == MaxClock + maxTimeout + 1

Instants(now) == { t \in {now, now + 1} : t <= MaxClock }

PollInstants(now) ==
    { t \in {now, now + maxTimeout, now + maxTimeout + 1} : t <= LastInstant }

-----------------------------------------------------------------------------
(* Flows *)

Sends == 1..MaxSends

Uploads == 1..MaxUploads

IdleSend ==
    [pc |-> "idle", text |-> <<>>, newContext |-> <<>>, convId |-> null,
     updatedConversations |-> <<>>, streamText |-> <<>>, accumulatedText |-> <<>>,
     error |-> <<>>,
     \* history of the flow, read only by the properties
     activeAtStart |-> null, freshStart |-> FALSE, overlap |-> {},
     chunks |-> <<>>, saved |-> FALSE,
     interleaved |-> FALSE, deleted |-> "no", newChatMid |-> FALSE]

inFlight(s) == s.pc \in {"fetch", "read"}

(* The number of Sends and Uploads started so far *)
Started ==
    Cardinality({f \in Sends : sends[f].pc # "idle"})
        + Cardinality({u \in Uploads : uploads[u].pc # "idle"})

(* History: every step of another flow or handler marks the Sends in flight. *)
Interleave(ss, f) ==
    [g \in DOMAIN ss |->
        IF g # f /\ inFlight(ss[g]) THEN [ss[g] EXCEPT !.interleaved = TRUE]
        ELSE ss[g]]


Deletes == 1..MaxDeletes

(* An invocation of handleConfirmDelete: the file, the context it built and,
   as history, whether the document list was loaded again *)
IdleDelete ==
    [pc |-> "idle", filename |-> <<>>, newContext |-> <<>>, refreshed |-> FALSE,
     failed |-> FALSE]

IdleUpload ==
    [pc |-> "idle", file |-> <<>>, newContext |-> <<>>, progressContext |-> <<>>,
     interval |-> 0, start |-> 0, requests |-> 0,
     \* history of the flow, read only by the properties
     callbacks |-> <<>>, refreshed |-> FALSE,
     \* history of the poll session: the responses received, the waits begun,
     \* the failed requests in a row, and how pollUploadStatus ended
     received |-> <<>>, waits |-> <<>>, failures |-> 0,
     outcome |-> "none", returned |-> NoStatus, thrown |-> <<>>]

(* History: pollUploadStatus returns info / throws an error with the message *)
pollReturns(up, info) == [up EXCEPT !.outcome = "returned", !.returned = info]

pollThrows(up, message) == [up EXCEPT !.outcome = "threw", !.thrown = message]

(* The locals of the legacy script's pollUploadStatus, with the latest answer,
   the statuses the latest step passed to onUpdate, the latest wait begun, the
   failed requests in a row and how the function ended *)
IdleLegacyPoll ==
    [pc |-> "idle", interval |-> 0, start |-> 0, consecutiveFailures |-> 0,
     answer |-> [http |-> 0, info |-> NoStatus],
     delivered |-> <<>>, waited |-> 0, failures |-> 0,
     outcome |-> "none", returned |-> NoStatus, thrown |-> <<>>]

Calls == 1..MaxCalls

(* A call of the IndexedDB store's saveConversations: its argument, with the
   table as it was when the call began (once the one-time migration is over),
   whether another call was in progress during it, whether the storage failed
   under it, how it ended, whether it converted the legacy record and the
   number of calls of saveConversation before it *)
IdleCall ==
    [pc |-> "idle", conversations |-> <<>>, before |-> <<>>, overlapped |-> FALSE,
     fault |-> FALSE, outcome |-> "none", converted |-> FALSE, puts |-> 0]

Loads == 1..MaxLoads

(* A call of the IndexedDB store's loadConversations: the list it returned,
   with whether it converted the legacy record, the calls of loadConversations
   and of saveConversations that had ended, the number of calls of
   saveConversation and the table when it began, whether another call ran
   during it and whether the storage failed under it; for the calls that
   overlap, the list read from localStorage, whether the flag was unset at
   that time and whether its bulkAdd was accepted *)
IdleLoad ==
    [pc |-> "idle", result |-> <<>>, converted |-> FALSE, after |-> {},
     saves |-> {}, puts |-> 0, before |-> <<>>, overlapped |-> FALSE,
     fault |-> FALSE, existing |-> <<>>, pending |-> FALSE, added |-> FALSE]

(* A call of streamChatMessage: the bytes the decoder holds and the text so
   far, with the response, the number of requests sent, the chunks read, the
   text each gave, the texts passed to onChunk and how the call ended *)
IdleStream ==
    [pc |-> "idle", pending |-> <<>>, accumulatedText |-> <<>>,
     response |-> [ok |-> TRUE, body |-> TRUE], requests |-> 0,
     values |-> <<>>, decoded |-> <<>>, snapshots |-> <<>>,
     outcome |-> "none", returned |-> <<>>, thrown |-> null]

(* History: handleNewChat ran while the Send was in flight. *)
MarkNewChat(ss) ==
    [g \in DOMAIN ss |->
        IF inFlight(ss[g]) THEN [ss[g] EXCEPT !.newChatMid = TRUE] ELSE ss[g]]

(* History: handleDeleteConversation(id) ran while the Send of id was in flight
   ("mid") or after it ended ("after"). *)
MarkDelete(ss, id) ==
    [g \in DOMAIN ss |->
        IF ss[g].pc # "idle" /\ ss[g].convId = id /\ ss[g].deleted = "no"
        THEN [ss[g] EXCEPT !.deleted = IF inFlight(ss[g]) THEN "mid" ELSE "after"]
        ELSE ss[g]]

-----------------------------------------------------------------------------
(* Initial state: the App component after its first render *)

Init ==
    \E st \in InitialStorage :
        LET loaded == loadConversations(st[1], st[2], FALSE, 0)
        IN /\ conversations = loaded.result
           /\ convStorage = loaded.conv
           /\ oldChatStorage = loaded.old
           /\ currentConversationId = null
           /\ chatContext = <<>>
           /\ isFileUploading = FALSE
           /\ clock = 0
           /\ navigations = 0
           /\ faults = 0
           /\ sends = [f \in Sends |-> IdleSend]
           /\ uploads = [u \in Uploads |-> IdleUpload]
           /\ deletes = [d \in Deletes |-> IdleDelete]
           /\ legacyPoll = IdleLegacyPoll
           /\ table = <<>>
           /\ migrationDone = FALSE
           /\ dbCalls = [c \in Calls |-> IdleCall]
           /\ dbLoads = [l \in Loads |-> IdleLoad]
           /\ dbPuts = 0
           /\ lsCalls = <<>>
           /\ stream = IdleStream

-----------------------------------------------------------------------------
(* Environment: one call of localStorage.setItem, which throws when full *)

setItem(full) ==
    /\ full => faults < MaxFaults
    /\ faults' = IF full THEN faults + 1 ELSE faults

-----------------------------------------------------------------------------
(* Session handlers *)

(* a New chat that saves the empty conversation list *)
handleNewChatSaved ==
    /\ navigations < MaxNavigations
    /\ navigations' = navigations + 1
    /\ currentConversationId' = null
    /\ chatContext' = <<>>
    /\ conversations' = <<>>
    /\ convStorage' = saveConversations(convStorage, FALSE, <<>>)
    /\ sends' = MarkNewChat(Interleave(sends, 0))
    /\ UNCHANGED <<isFileUploading, oldChatStorage, standalone, deletes, clock, faults,
                   uploads>>

(* lines 547-551 *)
handleNewChat ==
    /\ navigations < MaxNavigations
    /\ navigations' = navigations + 1
    /\ currentConversationId' = null
    /\ chatContext' = <<>>
    /\ sends' = MarkNewChat(Interleave(sends, 0))
    /\ UNCHANGED <<conversations, isFileUploading, convStorage, oldChatStorage, standalone, deletes,
                   clock, faults, uploads>>

handleOpenConversation(id) ==
    /\ navigations < MaxNavigations
    /\ navigations' = navigations + 1
    /\ findIndex(conversations, id) # 0
    /\ currentConversationId' = id
    /\ chatContext' = conversations[findIndex(conversations, id)].messages
    /\ sends' = Interleave(sends, 0)
    /\ UNCHANGED <<conversations, isFileUploading, convStorage, oldChatStorage, standalone, deletes,
                   clock, faults, uploads>>

handleDeleteConversation(id, full) ==
    /\ navigations < MaxNavigations
    /\ navigations' = navigations + 1
    /\ findIndex(conversations, id) # 0
    /\ LET newConversations == filterOut(conversations, id)
       IN /\ conversations' = newConversations
          /\ setItem(full)
          /\ convStorage' = saveConversations(convStorage, full, newConversations)
    /\ IF currentConversationId = id
       THEN /\ currentConversationId' = null
            /\ chatContext' = <<>>
       ELSE UNCHANGED <<currentConversationId, chatContext>>
    /\ sends' = MarkDelete(Interleave(sends, 0), id)
    /\ UNCHANGED <<isFileUploading, oldChatStorage, standalone, deletes, clock, uploads>>

-----------------------------------------------------------------------------
(* Send: handleSendMessage with streamChatMessage *)

userMessage(text) == Message("user", text, "none")

newConversation(id, text, newContext) == Conversation(id, text, newContext, id)

(* a callback that appends the snapshot after the placeholder *)
tempContextAppended(newContext, accumulatedText) ==
    newContext \o <<Message("model", <<>>, "none"),
                    Message("model", accumulatedText, "none")>>

tempContext(newContext, accumulatedText) ==
    newContext \o <<Message("model", accumulatedText, "none")>>

finalContext(newContext, accumulatedText) ==
    newContext \o <<Message("model", accumulatedText, "none")>>

(* a consumer that passes on the chunk instead of the text so far *)
accumulateDelta(accumulatedText, chunk) == chunk

(* line 73: accumulatedText += chunk *)
accumulate(accumulatedText, chunk) == accumulatedText \o chunk

errorContext(newContext, error) ==
    newContext \o <<Message("model", ErrorPrefix \o getErrorMessage(error), "error")>>

(* lines 620-663: promptValue is the content of the input box, now the value
   Date.now() returns, full whether localStorage.setItem throws *)
handleSendMessage(f, promptValue, now, full) ==
    /\ sends[f].pc = "idle"
    /\ \A g \in Sends : g < f => sends[g].pc # "idle"
    /\ LET text == trim(promptValue)
       IN IF text = <<>>
          THEN /\ now = clock
               /\ ~full
               /\ UNCHANGED vars
          ELSE LET newContext == chatContext \o <<userMessage(text)>>
                   id == toString(now)
                   convId == IF currentConversationId = null THEN id
                             ELSE currentConversationId
                   updatedConversations ==
                       IF currentConversationId = null
                       THEN <<newConversation(id, text, newContext)>> \o conversations
                       ELSE mapMessages(conversations, convId, newContext)
               IN /\ currentConversationId # null => now = clock
                  /\ clock' = now
                  /\ chatContext' = newContext \o <<loadingMsg>>
                  /\ conversations' = updatedConversations
                  /\ currentConversationId' = convId
                  /\ setItem(full)
                  /\ convStorage' = saveConversations(convStorage, full,
                                                      updatedConversations)
                  /\ sends' = Interleave(
                        [sends EXCEPT ![f] =
                            [IdleSend EXCEPT
                                !.pc = "fetch",
                                !.text = text,
                                !.newContext = newContext,
                                !.convId = convId,
                                !.updatedConversations = updatedConversations,
                                !.activeAtStart = currentConversationId,
                                !.overlap = {g \in Sends : inFlight(sends[g])},
                                !.freshStart = /\ convStorage.value = <<>>
                                               /\ conversations = <<>>
                                               /\ currentConversationId = null,
                                !.saved = ~full]], f)
                  /\ UNCHANGED <<isFileUploading, oldChatStorage, standalone, deletes, navigations,
                                 uploads>>

(* lines 680-694: the catch block *)
sendCatch(f, error, full) ==
    LET s == sends[f]
        context == errorContext(s.newContext, error)
        errorConvs == mapMessages(s.updatedConversations, s.convId, context)
    IN /\ chatContext' = context
       /\ conversations' = errorConvs
       /\ setItem(full)
       /\ convStorage' = saveConversations(convStorage, full, errorConvs)
       /\ sends' = Interleave([sends EXCEPT ![f].pc = "done",
                                            ![f].error = getErrorMessage(error),
                                            ![f].saved = ~full], f)
       /\ UNCHANGED <<currentConversationId, isFileUploading, oldChatStorage, standalone, deletes,
                      clock, navigations, uploads>>

(* lines 53-62: the fetch settles *)
fetchRejected(f, full) ==
    /\ sends[f].pc = "fetch"
    /\ sendCatch(f, TypeError(<<"Failed to fetch">>), full)

fetchNotOk(f, full) ==
    /\ sends[f].pc = "fetch"
    /\ sendCatch(f, Error(<<"Server Error">>), full)

fetchNoBody(f, full) ==
    /\ sends[f].pc = "fetch"
    /\ sendCatch(f, Error(<<"ReadableStream not supported">>), full)

fetchOk(f) ==
    /\ sends[f].pc = "fetch"
    /\ sends' = [sends EXCEPT ![f].pc = "read"]
    /\ UNCHANGED <<conversations, currentConversationId, chatContext,
                   isFileUploading, convStorage, oldChatStorage, standalone, deletes, clock, navigations,
                   faults, uploads>>

(* lines 69-74 and 663-668: one chunk is read, decoded and passed to onChunk *)
readChunk(f, decoded) ==
    /\ sends[f].pc = "read"
    /\ Len(sends[f].chunks) < MaxChunks
    /\ LET total == accumulate(sends[f].streamText, decoded)
       IN /\ chatContext' = tempContext(sends[f].newContext, total)
          /\ sends' = Interleave([sends EXCEPT ![f].streamText = total,
                                               ![f].accumulatedText = total,
                                               ![f].chunks = @ \o <<decoded>>], f)
    /\ UNCHANGED <<conversations, currentConversationId, isFileUploading,
                   convStorage, oldChatStorage, standalone, deletes, clock, navigations, faults, uploads>>

(* lines 69-70, 77 and 670-679: the stream ends *)
readDone(f, full) ==
    /\ sends[f].pc = "read"
    /\ LET s == sends[f]
           context == finalContext(s.newContext, s.accumulatedText)
           finalConvs == mapMessages(s.updatedConversations, s.convId, context)
       IN /\ chatContext' = context
          /\ conversations' = finalConvs
          /\ setItem(full)
          /\ convStorage' = saveConversations(convStorage, full, finalConvs)
          /\ sends' = Interleave([sends EXCEPT ![f].pc = "done",
                                               ![f].saved = ~full], f)
    /\ UNCHANGED <<currentConversationId, isFileUploading, oldChatStorage, standalone, deletes, clock,
                   navigations, uploads>>

(* line 69: reader.read() rejects *)
readFailed(f, full) ==
    /\ sends[f].pc = "read"
    /\ sendCatch(f, TypeError(<<"network error">>), full)

-----------------------------------------------------------------------------
(* Upload: handleFileSelect with pollUploadStatus *)

progressMsg(info) ==
    [role |-> "model", parts |-> <<MessagePart(<<>>, "none")>>, uploadStatus |-> info]

(* a poller that goes on after a failed status *)
terminalDoneOnly(info) == info.status = "done"

terminal(info) == info.status = "done" \/ info.status = "failed"

orDefault(text, default) == IF text = <<>> THEN default ELSE text

timeoutInfo(info) ==
    UploadStatusInfo("failed", <<"timeout">>,
                     IF info.progress = -1 \/ info.progress = 0 THEN 0 ELSE info.progress)

notFoundInfo == UploadStatusInfo("failed", <<"task not found">>, 0)

uploadDoneMsg(file) ==
    Message("model", <<"Processed", ":", " ">> \o file, "success")

uploadFailedMsg(finalStatus) ==
    Message("model", <<"Processing failed", ":", " ">>
                        \o orDefault(finalStatus.message, <<"error">>), "error")

uploadErrorMsg(error) ==
    Message("model", <<"Upload failed", ":", " ">> \o getErrorMessage(error), "error")

(* lines 697-710 *)
handleFileSelect(u, file) ==
    /\ uploads[u].pc = "idle"
    /\ \A v \in Uploads : v < u => uploads[v].pc # "idle"
    /\ LET newContext == <<userMessage(<<"File upload", ":", " ">> \o file)>>
       IN /\ IF Len(chatContext) > 0
             THEN /\ currentConversationId' = null
                  /\ sends' = MarkNewChat(Interleave(sends, 0))
             ELSE /\ UNCHANGED currentConversationId
                  /\ sends' = Interleave(sends, 0)
          /\ isFileUploading' = TRUE
          /\ chatContext' = newContext
          /\ uploads' = [uploads EXCEPT ![u] =
                            [IdleUpload EXCEPT !.pc = "upload",
                                               !.file = file,
                                               !.newContext = newContext]]
    /\ UNCHANGED <<conversations, convStorage, oldChatStorage, standalone, deletes, clock, navigations,
                   faults>>

(* a catch block that ends the flow without showing the error *)
uploadCatchSilent(u, error, written) ==
    /\ chatContext' = uploads[u].newContext
    /\ isFileUploading' = FALSE
    /\ uploads' = [written EXCEPT ![u].pc = "done"]

(* lines 751-758: the catch block *)
uploadCatch(u, error, written) ==
    LET context == uploads[u].newContext \o <<uploadErrorMsg(error)>>
    IN /\ chatContext' = context
       /\ isFileUploading' = FALSE
       /\ uploads' = [written EXCEPT ![u].pc = "done"]

(* lines 710-724 and 108-117: POST /upload settles *)
uploadSettled(u, data, now) ==
    /\ uploads[u].pc = "upload"
    /\ IF ~data.ok
       THEN /\ now = clock
            /\ uploadCatch(u, Error(data.message), uploads)
            /\ UNCHANGED clock
       ELSE IF data.task_id = <<>>
       THEN LET botMsg == Message("model", orDefault(data.message, <<"Upload done">>),
                                  "success")
                context == uploads[u].newContext \o <<botMsg>>
            IN /\ now = clock
               /\ chatContext' = context
               /\ uploads' = [uploads EXCEPT ![u].pc = "refresh"]
               /\ UNCHANGED <<isFileUploading, clock>>
       ELSE /\ clock' = now
            /\ uploads' = [uploads EXCEPT ![u].pc = "poll",
                                          ![u].progressContext = uploads[u].newContext,
                                          ![u].interval = initialInterval,
                                          ![u].start = now,
                                          ![u].requests = 1]
            /\ UNCHANGED <<chatContext, isFileUploading>>
    /\ sends' = Interleave(sends, 0)
    /\ UNCHANGED <<conversations, currentConversationId, convStorage, oldChatStorage, standalone, deletes,
                   navigations, faults>>

(* a callback that adds its message to the ones before *)
onUpdateAppending(up, info) ==
    [up EXCEPT !.progressContext = @ \o <<progressMsg(info)>>,
               !.callbacks = @ \o <<info>>]

(* a status that reaches the callback twice *)
onUpdateTwice(up, info) ==
    [up EXCEPT !.progressContext = up.newContext \o <<progressMsg(info)>>,
               !.callbacks = @ \o <<info, info>>]

(* lines 726-734: the callback handed to pollUploadStatus *)
onUpdate(up, info) ==
    LET context == up.newContext \o <<progressMsg(info)>>
    IN [up EXCEPT !.progressContext = context,
                  !.callbacks = @ \o <<info>>]

(* an Upload that leaves the flag set when the final status is failed *)
uploadFinishedFlagKept(u, up, finalStatus) ==
    IF finalStatus.status = "done"
    THEN /\ chatContext' = up.newContext \o <<uploadDoneMsg(up.file)>>
         /\ uploads' = [uploads EXCEPT ![u] = [up EXCEPT !.pc = "refresh"]]
         /\ UNCHANGED isFileUploading
    ELSE /\ chatContext' = up.newContext \o <<uploadFailedMsg(finalStatus)>>
         /\ uploads' = [uploads EXCEPT ![u] = [up EXCEPT !.pc = "done"]]
         /\ UNCHANGED isFileUploading

(* lines 736-750: pollUploadStatus has returned finalStatus *)
uploadFinished(u, up, finalStatus) ==
    IF finalStatus.status = "done"
    THEN LET context == up.newContext \o <<uploadDoneMsg(up.file)>>
         IN /\ chatContext' = context
            /\ uploads' = [uploads EXCEPT ![u] = [up EXCEPT !.pc = "refresh"]]
            /\ UNCHANGED isFileUploading
    ELSE LET context == up.newContext \o <<uploadFailedMsg(finalStatus)>>
         IN /\ chatContext' = context
            /\ isFileUploading' = FALSE
            /\ uploads' = [uploads EXCEPT ![u] = [up EXCEPT !.pc = "done"]]

(* a poller that gives up as soon as 20 minutes have passed *)
timedOutEarly(now, start) == now - start >= maxTimeout

(* line 124: Date.now() - start > maxTimeout *)
timedOut(now, start) == now - start > maxTimeout

(* a poller that takes a 404 for any other failure *)
isNotFoundNever(response) == FALSE

(* line 138: err.response?.status === 404 *)
isNotFound(response) == response.http = 404

(* lines 113-149: one GET /upload/status settles *)
pollSettled(u, response, now) ==
    /\ uploads[u].pc = "poll"
    /\ LET up == [uploads[u] EXCEPT
                     !.received = @ \o <<response>>,
                     !.failures = IF response.http = 200 THEN 0
                                  ELSE IF response.http = 404 THEN @ ELSE @ + 1]
       IN IF response.http = 200
          THEN LET info == response.info
                   told == onUpdate(up, info)
               IN IF terminal(info)
                  THEN /\ now = clock
                       /\ uploadFinished(u, pollReturns(told, info), info)
                       /\ UNCHANGED clock
                  ELSE /\ clock' = now
                       /\ IF timedOut(now, up.start)
                          THEN uploadCatch(u, Error(<<"Polling timeout">>),
                                   [uploads EXCEPT ![u] =
                                       pollThrows(onUpdate(told, timeoutInfo(info)),
                                                  <<"Polling timeout">>)])
                          ELSE /\ chatContext' = told.progressContext
                               /\ uploads' = [uploads EXCEPT ![u] =
                                                 [told EXCEPT !.pc = "wait",
                                                              !.waits = @ \o <<up.interval>>]]
                               /\ UNCHANGED isFileUploading
          ELSE IF isNotFound(response)
          THEN /\ now = clock
               /\ uploadFinished(u, pollReturns(onUpdate(up, notFoundInfo), notFoundInfo),
                                 notFoundInfo)
               /\ UNCHANGED clock
          ELSE /\ now = clock
               /\ uploadCatch(u, Error(<<"Network Error">>),
                              [uploads EXCEPT ![u] = pollThrows(up, <<"Network Error">>)])
               /\ UNCHANGED clock
    /\ sends' = Interleave(sends, 0)
    /\ UNCHANGED <<conversations, currentConversationId, convStorage, oldChatStorage,
                   standalone, deletes, navigations, faults>>

(* a wait that starts every time from the initial interval *)
backoffReset(interval) == initialInterval

(* line 136: interval = Math.min(interval * 2, maxInterval) *)
backoff(interval) == IF 2 * interval < maxInterval THEN 2 * interval ELSE maxInterval

(* lines 135-136 and 115: the wait ends and the next request is sent *)
pollWake(u) ==
    /\ uploads[u].pc = "wait"
    /\ uploads' = [uploads EXCEPT
                      ![u].pc = "poll",
                      ![u].interval = backoff(@),
                      ![u].requests = @ + 1]
    /\ UNCHANGED <<conversations, currentConversationId, chatContext,
                   isFileUploading, convStorage, oldChatStorage, standalone, deletes, clock, navigations,
                   faults, sends>>

(* lines 718-719 and 741, 750: loadDocuments has settled *)
documentsLoaded(u) ==
    /\ uploads[u].pc = "refresh"
    /\ isFileUploading' = FALSE
    /\ uploads' = [uploads EXCEPT ![u].pc = "done", ![u].refreshed = TRUE]
    /\ sends' = Interleave(sends, 0)
    /\ UNCHANGED <<conversations, currentConversationId, chatContext, convStorage,
                   oldChatStorage, standalone, deletes, clock, navigations, faults>>

-----------------------------------------------------------------------------
(* Delete document: handleConfirmDelete *)

deleteDoneMsg(filename) ==
    Message("model", <<"'">> \o filename \o <<"'", " ", "deleted">>, "success")

deleteErrorMsg(error) ==
    Message("model", <<"Delete failed", ":", " ">> \o getErrorMessage(error), "error")

(* lines 586-599: the modal is confirmed; target is targetFileToDelete *)
handleConfirmDelete(d, target) ==
    /\ deletes[d].pc = "idle"
    /\ \A e \in Deletes : e < d => deletes[e].pc # "idle"
    /\ IF target = null
       THEN UNCHANGED vars
       ELSE LET newContext == <<userMessage(<<"Delete document", ":", " ">> \o target)>>
            IN /\ IF Len(chatContext) > 0
                  THEN /\ currentConversationId' = null
                       /\ sends' = MarkNewChat(Interleave(sends, 0))
                  ELSE /\ UNCHANGED currentConversationId
                       /\ sends' = Interleave(sends, 0)
               /\ chatContext' = newContext
               /\ deletes' = [deletes EXCEPT ![d] =
                                 [IdleDelete EXCEPT !.pc = "delete",
                                                    !.filename = target,
                                                    !.newContext = newContext]]
               /\ UNCHANGED <<conversations, isFileUploading, convStorage,
                              oldChatStorage, standalone, clock, navigations, faults,
                              uploads>>

(* a Delete document that saves its turn as a conversation *)
deleteSettledSaved(d, ok) ==
    LET context == deletes[d].newContext \o <<deleteDoneMsg(deletes[d].filename)>>
    IN /\ deletes[d].pc = "delete"
       /\ chatContext' = context
       /\ deletes' = [deletes EXCEPT ![d].pc = IF ok THEN "refresh" ELSE "done",
                                     ![d].failed = ~ok]
       /\ convStorage' = saveConversations(convStorage, FALSE,
                             <<newConversation(toString(clock), deletes[d].filename,
                                               context)>> \o conversations)
       /\ sends' = Interleave(sends, 0)
       /\ UNCHANGED <<conversations, currentConversationId, isFileUploading,
                      oldChatStorage, standalone, clock, navigations, faults, uploads>>

(* lines 601-617: DELETE /documents settles *)
deleteSettled(d, ok) ==
    /\ deletes[d].pc = "delete"
    /\ IF ok
       THEN /\ chatContext' = deletes[d].newContext
                                 \o <<deleteDoneMsg(deletes[d].filename)>>
            /\ deletes' = [deletes EXCEPT ![d].pc = "refresh"]
       ELSE /\ chatContext' = deletes[d].newContext
                                 \o <<deleteErrorMsg(Error(<<"Network Error">>))>>
            /\ deletes' = [deletes EXCEPT ![d].pc = "done", ![d].failed = TRUE]
    /\ sends' = Interleave(sends, 0)
    /\ UNCHANGED <<conversations, currentConversationId, isFileUploading, convStorage,
                   oldChatStorage, standalone, clock, navigations, faults, uploads>>

(* lines 609 and 177-190: loadDocuments has settled *)
deleteDocumentsLoaded(d) ==
    /\ deletes[d].pc = "refresh"
    /\ deletes' = [deletes EXCEPT ![d].pc = "done", ![d].refreshed = TRUE]
    /\ sends' = Interleave(sends, 0)
    /\ UNCHANGED <<conversations, currentConversationId, chatContext, isFileUploading,
                   convStorage, oldChatStorage, standalone, clock, navigations, faults,
                   uploads>>

-----------------------------------------------------------------------------
Next ==
    \/ handleNewChat
    \/ \E i \in 1..Len(conversations) : handleOpenConversation(conversations[i].id)
    \/ \E i \in 1..Len(conversations), full \in BOOLEAN :
           handleDeleteConversation(conversations[i].id, full)
    \/ \E f \in Sends, promptValue \in Prompts, now \in Instants(clock),
          full \in BOOLEAN :
           Started < MaxFlows /\ handleSendMessage(f, promptValue, now, full)
    \/ \E f \in Sends, full \in BOOLEAN : fetchRejected(f, full)
    \/ \E f \in Sends, full \in BOOLEAN : fetchNotOk(f, full)
    \/ \E f \in Sends, full \in BOOLEAN : fetchNoBody(f, full)
    \/ \E f \in Sends : fetchOk(f)
    \/ \E f \in Sends, decoded \in Decoded : readChunk(f, decoded)
    \/ \E f \in Sends, full \in BOOLEAN : readDone(f, full)
    \/ \E f \in Sends, full \in BOOLEAN : readFailed(f, full)
    \/ \E u \in Uploads, file \in Files :
           Started < MaxFlows /\ handleFileSelect(u, file)
    \/ \E u \in Uploads, data \in UploadResponses, now \in PollInstants(clock) :
           uploadSettled(u, data, now)
    \/ \E u \in Uploads, response \in PollResponses, now \in PollInstants(clock) :
           pollSettled(u, response, now)
    \/ \E u \in Uploads : uploads[u].requests < MaxPolls /\ pollWake(u)
    \/ \E u \in Uploads : documentsLoaded(u)

Spec == Init /\ [][Next]_vars

-----------------------------------------------------------------------------
(* The legacy script's pollUploadStatus (part_007, lines 307-345) *)

networkInfo == UploadStatusInfo("failed", <<"polling stopped">>, 0)

(* lines 308-312: a call of pollUploadStatus *)
legacyPollStart(now) ==
    /\ legacyPoll.pc \in {"idle", "done"}
    /\ clock' = now
    /\ legacyPoll' = [IdleLegacyPoll EXCEPT !.pc = "poll",
                                            !.interval = initialInterval,
                                            !.start = now]
    /\ UNCHANGED <<conversations, currentConversationId, chatContext,
                   isFileUploading, convStorage, oldChatStorage, navigations,
                   faults, sends, uploads, deletes, dbVars, lsCalls, stream>>

(* lines 335-343: the catch block, entered with the locals lp *)
legacyCatch(lp, message) ==
    LET count == lp.consecutiveFailures + 1
    IN IF count >= 5
       THEN [lp EXCEPT !.consecutiveFailures = count,
                       !.delivered = @ \o <<networkInfo>>,
                       !.pc = "done",
                       !.outcome = "threw",
                       !.thrown = message]
       ELSE [lp EXCEPT !.consecutiveFailures = count,
                       !.pc = "wait",
                       !.waited = IF lp.interval < maxInterval THEN lp.interval
                                  ELSE maxInterval]

(* lines 316-334: one fetch of /upload/status settles *)
legacySettled(response, now) ==
    /\ legacyPoll.pc = "poll"
    /\ LET lp == [legacyPoll EXCEPT !.delivered = <<>>, !.answer = response]
       IN IF isNotFound(response)
          THEN /\ now = clock
               /\ legacyPoll' = [lp EXCEPT
                                    !.delivered = <<notFoundInfo>>,
                                    !.pc = "done",
                                    !.outcome = "returned",
                                    !.returned = UploadStatusInfo("failed", <<>>, -1)]
          ELSE IF response.http = 200
          THEN LET info == response.info
                   ok == [lp EXCEPT !.consecutiveFailures = 0,
                                    !.failures = 0,
                                    !.delivered = <<info>>]
               IN IF terminal(info)
                  THEN /\ now = clock
                       /\ legacyPoll' = [ok EXCEPT !.pc = "done",
                                                   !.outcome = "returned",
                                                   !.returned = info]
                  ELSE IF timedOut(now, lp.start)
                  THEN legacyPoll' =
                           legacyCatch([ok EXCEPT !.delivered = @ \o <<timeoutInfo(info)>>],
                                       <<"Polling timeout">>)
                  ELSE legacyPoll' = [ok EXCEPT !.pc = "wait", !.waited = lp.interval]
          ELSE /\ now = clock
               /\ legacyPoll' = legacyCatch([lp EXCEPT !.failures = @ + 1],
                                            <<"Failed to fetch">>)
    /\ clock' = now
    /\ UNCHANGED <<conversations, currentConversationId, chatContext,
                   isFileUploading, convStorage, oldChatStorage, navigations,
                   faults, sends, uploads, deletes, dbVars, lsCalls, stream>>

(* lines 332-333 and 341-342: the wait ends and the interval is doubled *)
legacyWake ==
    /\ legacyPoll.pc = "wait"
    /\ legacyPoll' = [legacyPoll EXCEPT !.pc = "poll",
                                        !.interval = backoff(@),
                                        !.delivered = <<>>]
    /\ UNCHANGED <<conversations, currentConversationId, chatContext,
                   isFileUploading, convStorage, oldChatStorage, clock, navigations,
                   faults, sends, uploads, deletes, dbVars, lsCalls, stream>>

(* the answers of the status endpoint in the poll sessions *)
PollAnswers ==
    { [http |-> 200, info |-> i] :
         i \in { UploadStatusInfo("uploaded", <<>>, -1),
                 UploadStatusInfo("processing", <<>>, 30),
                 UploadStatusInfo("processing", <<>>, 70),
                 UploadStatusInfo("done", <<>>, 100),
                 UploadStatusInfo("failed", <<"bad file">>, -1) } }
    \cup { [http |-> 404, info |-> NoStatus], [http |-> 0, info |-> NoStatus] }

(* The poll sessions alone, one after the other: uploads of the App
   component, or calls of the legacy script's pollUploadStatus *)
NextPoll ==
    \/ \E u \in Uploads, file \in Files :
           /\ legacyPoll.pc = "idle"
           /\ \A v \in Uploads : uploads[v].pc \in {"idle", "done"}
           /\ handleFileSelect(u, file)
    \/ \E u \in Uploads, now \in PollInstants(clock) :
           uploadSettled(u, [ok |-> TRUE, task_id |-> <<"t">>, message |-> <<>>], now)
    \/ \E u \in Uploads, response \in PollAnswers, now \in PollInstants(clock) :
           pollSettled(u, response, now)
    \/ \E u \in Uploads : uploads[u].requests < PollLimit /\ pollWake(u)
    \/ \E u \in Uploads : documentsLoaded(u)
    \/ \E now \in PollInstants(clock) :
           (\A u \in Uploads : uploads[u].pc = "idle") /\ legacyPollStart(now)
    \/ \E response \in PollAnswers, now \in PollInstants(clock) :
           legacySettled(response, now)
    \/ legacyWake

SpecPoll == Init /\ [][NextPoll]_vars

(* The legacy script's poll sessions alone: every request is answered and
   every wait ends *)
NextLegacy ==
    \/ \E now \in PollInstants(clock) : legacyPollStart(now)
    \/ \E response \in PollAnswers, now \in PollInstants(clock) :
           legacySettled(response, now)
    \/ legacyWake

SpecLegacy ==
    /\ Init
    /\ [][NextLegacy]_vars
    /\ WF_vars(\E response \in PollAnswers, now \in PollInstants(clock) :
                   legacySettled(response, now))
    /\ WF_vars(legacyWake)

-----------------------------------------------------------------------------
(* The IndexedDB store (indexedDBStorage.ts).  The table is a function from
   the primary keys present to their records. *)

keys(list) == { list[i].id : i \in 1..Len(list) }

(* db.conversations.clear() *)
clear(tbl) == <<>>

(* the table after the records of the list are added one by one; a record
   whose key is present is not added (ConstraintError) *)
RECURSIVE addAll(_, _)
addAll(tbl, list) ==
    IF list = <<>> THEN tbl
    ELSE LET r == Head(list)
         IN IF r.id \in DOMAIN tbl
            THEN addAll(tbl, Tail(list))
            ELSE addAll([k \in DOMAIN tbl \cup {r.id} |->
                            IF k = r.id THEN r ELSE tbl[k]], Tail(list))

(* the number of records of the list that bulkAdd cannot add *)
RECURSIVE numFailures(_, _)
numFailures(present, list) ==
    IF list = <<>> THEN 0
    ELSE IF Head(list).id \in present
         THEN 1 + numFailures(present, Tail(list))
         ELSE numFailures(present \cup {Head(list).id}, Tail(list))

(* db.conversations.bulkAdd(list): with quota the storage refuses the write;
   when some record cannot be added the call rejects with a BulkError, and
   with kept the records that were added stay in the table, else none does *)
bulkAdd(tbl, list, quota, kept) ==
    IF quota THEN [table |-> tbl, rejected |-> TRUE]
    ELSE IF numFailures(DOMAIN tbl, list) = 0
         THEN [table |-> addAll(tbl, list), rejected |-> FALSE]
         ELSE [table |-> IF kept THEN addAll(tbl, list) ELSE tbl, rejected |-> TRUE]

(* lines 68-91: loadConversationsFromLocalStorage *)
loadConversationsFromLocalStorage(conv, old, now) ==
    IF conv.has THEN conv.value
    ELSE IF old.has
         THEN LET id == toString(now)
              IN <<Conversation(id, firstUserTitle(old.value, id), old.value, id)>>
         ELSE <<>>

digitValue(d) == CHOOSE n \in 0..9 : Digit[n + 1] = d

(* the order of IndexedDB on string keys *)
RECURSIVE lessText(_, _)
lessText(a, b) ==
    IF b = <<>> THEN FALSE
    ELSE IF a = <<>> THEN TRUE
    ELSE IF Head(a) = Head(b) THEN lessText(Tail(a), Tail(b))
    ELSE digitValue(Head(a)) < digitValue(Head(b))

(* lines 119-122: orderBy('createdAt').reverse().toArray() *)
RECURSIVE toArray(_)
toArray(tbl) ==
    IF DOMAIN tbl = {} THEN <<>>
    ELSE LET last == CHOOSE k \in DOMAIN tbl :
                        \A j \in DOMAIN tbl \ {k} :
                            \/ lessText(tbl[j].createdAt, tbl[k].createdAt)
                            \/ /\ tbl[j].createdAt = tbl[k].createdAt
                               /\ lessText(j, k)
         IN <<tbl[last]>> \o toArray([j \in DOMAIN tbl \ {last} |-> tbl[j]])

(* History: every step of a call marks the other calls in progress *)
Overlap(calls, c) ==
    [d \in DOMAIN calls |->
        IF d # c /\ calls[d].pc \notin {"idle", "done"}
        THEN [calls[d] EXCEPT !.overlapped = TRUE] ELSE calls[d]]

(* a call of the store is in progress *)
busy == \/ \E c \in Calls : dbCalls[c].pc \notin {"idle", "done"}
        \/ \E l \in Loads : dbLoads[l].pc \notin {"idle", "done"}

(* lines 34-63: migrateFromLocalStorage, from the flag, the table and the
   localStorage items it finds, to the table and the flag it leaves; with full
   localStorage.setItem throws *)
migrateFromLocalStorage(tbl, done, conv, old, now, quota, kept, full) ==
    IF done THEN [table |-> tbl, done |-> TRUE, converted |-> FALSE]
    ELSE LET existing == loadConversationsFromLocalStorage(conv, old, now)
             added == IF Len(existing) > 0 THEN bulkAdd(tbl, existing, quota, kept)
                      ELSE [table |-> tbl, rejected |-> FALSE]
         IN [table |-> added.table,
             done |-> ~added.rejected /\ ~full,
             converted |-> ~conv.has /\ old.has]

(* the inputs of one run of migrateFromLocalStorage that it reads: the time
   when it converts the legacy record, the answers of bulkAdd when it adds,
   the answer of setItem when it sets the flag *)
migrateInputs(now, quota, kept, full) ==
    LET converts == ~migrationDone /\ ~convStorage.has /\ oldChatStorage.has
        existing == loadConversationsFromLocalStorage(convStorage, oldChatStorage, now)
        adds == ~migrationDone /\ Len(existing) > 0
        conflicts == adds /\ numFailures(DOMAIN table, existing) > 0
    IN /\ now # clock => converts
       /\ quota => adds /\ ~kept
       /\ kept => conflicts
       /\ full => ~migrationDone /\ ~quota /\ ~conflicts

(* Environment: one operation of the store that the storage may refuse *)
refused(failing) ==
    /\ failing => faults < MaxFaults
    /\ faults' = IF failing THEN faults + 1 ELSE faults

(* line 96: saveConversations(conversations) is called *)
saveStart(c, conversations_) ==
    /\ dbCalls[c].pc = "idle"
    /\ \A d \in Calls : d < c => dbCalls[d].pc # "idle"
    /\ dbCalls' = Overlap([dbCalls EXCEPT ![c] =
                              [IdleCall EXCEPT
                                  !.pc = "migrate",
                                  !.conversations = conversations_,
                                  !.before = table,
                                  !.puts = dbPuts,
                                  !.overlapped = busy]],
                          c)
    /\ dbLoads' = Overlap(dbLoads, 0)
    /\ UNCHANGED <<conversations, currentConversationId, chatContext,
                   isFileUploading, convStorage, oldChatStorage, clock, navigations,
                   faults, sends, uploads, deletes, legacyPoll, lsCalls, stream, dbPuts, table,
                   migrationDone>>

(* lines 34-63 and 99: migrateFromLocalStorage *)
saveMigrate(c, now, quota, kept, full) ==
    /\ dbCalls[c].pc = "migrate"
    /\ refused(quota \/ full)
    /\ migrateInputs(now, quota, kept, full)
    /\ LET migrated == migrateFromLocalStorage(table, migrationDone, convStorage,
                                               oldChatStorage, now, quota, kept, full)
       IN /\ table' = migrated.table
          /\ migrationDone' = migrated.done
          /\ dbCalls' = Overlap([dbCalls EXCEPT ![c].pc = "clear",
                                                ![c].fault = quota \/ full,
                                                ![c].before = migrated.table,
                                                ![c].converted = migrated.converted], c)
    /\ clock' = now
    /\ dbLoads' = Overlap(dbLoads, 0)
    /\ UNCHANGED <<conversations, currentConversationId, chatContext,
                   isFileUploading, convStorage, oldChatStorage, navigations,
                   sends, uploads, deletes, legacyPoll, lsCalls, stream, dbPuts>>

(* line 102: db.conversations.clear() settles; lines 104-107 when it fails *)
saveClear(c, failed) ==
    /\ dbCalls[c].pc = "clear"
    /\ refused(failed)
    /\ IF failed
       THEN /\ dbCalls' = Overlap([dbCalls EXCEPT ![c].pc = "done",
                                                  ![c].fault = TRUE,
                                                  ![c].outcome = "rejected"], c)
            /\ UNCHANGED table
       ELSE /\ table' = clear(table)
            /\ dbCalls' = Overlap([dbCalls EXCEPT ![c].pc = "add"], c)
    /\ dbLoads' = Overlap(dbLoads, 0)
    /\ UNCHANGED <<conversations, currentConversationId, chatContext,
                   isFileUploading, convStorage, oldChatStorage, clock, navigations,
                   sends, uploads, deletes, legacyPoll, lsCalls, stream, dbPuts, migrationDone>>

(* line 103: db.conversations.bulkAdd(conversations) settles; lines 104-107
   when it fails *)
saveBulkAdd(c, quota, kept) ==
    /\ dbCalls[c].pc = "add"
    /\ refused(quota)
    /\ LET added == bulkAdd(table, dbCalls[c].conversations, quota, kept)
       IN /\ quota => ~kept
          /\ (~quota /\ numFailures(DOMAIN table, dbCalls[c].conversations) = 0) => ~kept
          /\ table' = added.table
          /\ dbCalls' = Overlap([dbCalls EXCEPT
                                    ![c].pc = "done",
                                    ![c].fault = @ \/ quota,
                                    ![c].outcome = IF added.rejected THEN "rejected"
                                                   ELSE "resolved"], c)
    /\ dbLoads' = Overlap(dbLoads, 0)
    /\ UNCHANGED <<conversations, currentConversationId, chatContext,
                   isFileUploading, convStorage, oldChatStorage, clock, navigations,
                   sends, uploads, deletes, legacyPoll, lsCalls, stream, dbPuts, migrationDone>>

(* db.conversations.put(conversation) *)
put(tbl, conversation) ==
    [k \in DOMAIN tbl \cup {conversation.id} |->
        IF k = conversation.id THEN conversation ELSE tbl[k]]

(* lines 134-141: saveConversation(conversation), with its one operation *)
saveConversation(conversation, failed) ==
    /\ dbPuts < MaxPuts
    /\ refused(failed)
    /\ dbPuts' = dbPuts + 1
    /\ table' = IF failed THEN table ELSE put(table, conversation)
    /\ dbCalls' = Overlap(dbCalls, 0)
    /\ dbLoads' = Overlap(dbLoads, 0)
    /\ UNCHANGED <<conversations, currentConversationId, chatContext,
                   isFileUploading, convStorage, oldChatStorage, clock, navigations,
                   sends, uploads, deletes, legacyPoll, lsCalls, stream, migrationDone>>

(* line 113: loadConversations() is called *)
loadStart(l) ==
    /\ dbLoads[l].pc = "idle"
    /\ \A k \in Loads : k < l => dbLoads[k].pc # "idle"
    /\ dbLoads' = Overlap([dbLoads EXCEPT ![l] =
                              [IdleLoad EXCEPT
                                  !.pc = "migrate",
                                  !.after = {k \in Loads : dbLoads[k].pc = "done"},
                                  !.saves = {c \in Calls : dbCalls[c].pc = "done"},
                                  !.puts = dbPuts,
                                  !.before = table,
                                  !.overlapped = busy]],
                          l)
    /\ dbCalls' = Overlap(dbCalls, 0)
    /\ UNCHANGED <<conversations, currentConversationId, chatContext,
                   isFileUploading, convStorage, oldChatStorage, clock, navigations,
                   faults, sends, uploads, deletes, legacyPoll, lsCalls, stream, dbPuts, table,
                   migrationDone>>

(* lines 34-63 and 116: migrateFromLocalStorage *)
loadMigrate(l, now, quota, kept, full) ==
    /\ dbLoads[l].pc = "migrate"
    /\ refused(quota \/ full)
    /\ migrateInputs(now, quota, kept, full)
    /\ LET migrated == migrateFromLocalStorage(table, migrationDone, convStorage,
                                               oldChatStorage, now, quota, kept, full)
       IN /\ table' = migrated.table
          /\ migrationDone' = migrated.done
          /\ dbLoads' = Overlap([dbLoads EXCEPT ![l].pc = "query",
                                                ![l].fault = quota \/ full,
                                                ![l].converted = migrated.converted], l)
    /\ clock' = now
    /\ dbCalls' = Overlap(dbCalls, 0)
    /\ UNCHANGED <<conversations, currentConversationId, chatContext,
                   isFileUploading, convStorage, oldChatStorage, navigations,
                   sends, uploads, deletes, legacyPoll, lsCalls, stream, dbPuts>>

(* lines 119-128: the query settles *)
loadQuery(l, failed) ==
    /\ dbLoads[l].pc = "query"
    /\ refused(failed)
    /\ dbLoads' = Overlap([dbLoads EXCEPT
                              ![l].pc = "done",
                              ![l].fault = @ \/ failed,
                              ![l].result = IF failed THEN <<>> ELSE toArray(table)], l)
    /\ dbCalls' = Overlap(dbCalls, 0)
    /\ UNCHANGED <<conversations, currentConversationId, chatContext,
                   isFileUploading, convStorage, oldChatStorage, clock, navigations,
                   sends, uploads, deletes, legacyPoll, lsCalls, stream, dbPuts, table,
                   migrationDone>>

StoredRecord(id, title) ==
    Conversation(id, title, <<Message("user", title, "none")>>, id)

(* a conversation whose messages carry an icon and upload statuses *)
UploadRecord(id) ==
    Conversation(id, <<"f">>,
                 << userMessage(<<"f">>),
                    progressMsg(UploadStatusInfo("processing", <<>>, 30)),
                    progressMsg(UploadStatusInfo("failed", <<"bad file">>, -1)),
                    uploadDoneMsg(<<"f">>) >>,
                 id)

(* the lists handed to saveConversations *)
SaveLists ==
    { <<StoredRecord(<<"1">>, <<"a">>)>>,
      <<StoredRecord(<<"2">>, <<"b">>), StoredRecord(<<"1">>, <<"c">>)>>,
      <<StoredRecord(<<"3">>, <<"d">>)>> }

StoreLists ==
    SaveLists \cup { <<>>,
                     <<StoredRecord(<<"1">>, <<"a">>), UploadRecord(<<"3">>)>> }

(* the conversations handed to saveConversation *)
PutRecords == { StoredRecord(<<"0">>, <<"q">>) }

(* localStorage as the store may find it: no record, an empty list or a list
   under the current key; no record, a chat or a chat without a user message
   under the legacy key *)
StoreStorage ==
    { <<conv, old>> :
         conv \in { Absent, Stored(<<>>), Stored(<<StoredRecord(<<"0">>, <<"q">>)>>) },
         old \in { Absent, Stored(LegacyChat),
                   Stored(<<Message("model", <<"r">>, "none")>>) } }

(* Date.now() in the calls of the stores: the conversations at hand were
   created before the first call *)
StoreInstants(now) == { t \in {now, now + 1} : t <= StoreEpoch + MaxClock }

(* The stores before any call *)
InitStore ==
    \E st \in StoreStorage :
        /\ conversations = <<>>
        /\ convStorage = st[1]
        /\ oldChatStorage = st[2]
        /\ currentConversationId = null
        /\ chatContext = <<>>
        /\ isFileUploading = FALSE
        /\ clock = StoreEpoch
        /\ navigations = 0
        /\ faults = 0
        /\ sends = [f \in Sends |-> IdleSend]
        /\ uploads = [u \in Uploads |-> IdleUpload]
        /\ deletes = [d \in Deletes |-> IdleDelete]
        /\ legacyPoll = IdleLegacyPoll
        /\ table = <<>>
        /\ migrationDone = FALSE
        /\ dbCalls = [c \in Calls |-> IdleCall]
        /\ dbLoads = [l \in Loads |-> IdleLoad]
        /\ dbPuts = 0
        /\ lsCalls = <<>>
        /\ stream = IdleStream

(* the number of calls of the IndexedDB store so far *)
started ==
    Cardinality({c \in Calls : dbCalls[c].pc # "idle"})
        + Cardinality({l \in Loads : dbLoads[l].pc # "idle"}) + dbPuts

loading == \E l \in Loads : dbLoads[l].pc \notin {"idle", "done"}

(* The IndexedDB store alone: at most MaxStarted calls of saveConversations,
   saveConversation and loadConversations, where calls of saveConversations
   may overlap and a call of loadConversations runs alone *)
NextStore ==
    \/ \E c \in Calls, list \in StoreLists :
           started < MaxStarted /\ ~loading /\ saveStart(c, list)
    \/ \E c \in Calls, now \in StoreInstants(clock), quota \in BOOLEAN, kept \in BOOLEAN,
          full \in BOOLEAN : saveMigrate(c, now, quota, kept, full)
    \/ \E c \in Calls, failed \in BOOLEAN : saveClear(c, failed)
    \/ \E c \in Calls, quota \in BOOLEAN, kept \in BOOLEAN : saveBulkAdd(c, quota, kept)
    \/ \E conversation \in PutRecords, failed \in BOOLEAN :
           started < MaxStarted /\ saveConversation(conversation, failed)
    \/ \E l \in Loads : started < MaxStarted /\ ~busy /\ loadStart(l)
    \/ \E l \in Loads, now \in StoreInstants(clock), quota \in BOOLEAN, kept \in BOOLEAN,
          full \in BOOLEAN : loadMigrate(l, now, quota, kept, full)
    \/ \E l \in Loads, failed \in BOOLEAN : loadQuery(l, failed)

SpecStore == InitStore /\ [][NextStore]_vars

-----------------------------------------------------------------------------
(* Calls of loadConversations that overlap: migrateFromLocalStorage in the
   steps between which another call can run *)

(* lines 113-116 and 34-43: loadConversations() is called; it tests the flag
   and reads localStorage before its first await *)
loadBegin(l, now) ==
    /\ dbLoads[l].pc = "idle"
    /\ \A k \in Loads : k < l => dbLoads[k].pc # "idle"
    /\ LET converts == ~migrationDone /\ ~convStorage.has /\ oldChatStorage.has
           existing == loadConversationsFromLocalStorage(convStorage, oldChatStorage,
                                                         now)
       IN /\ now # clock => converts
          /\ dbLoads' = Overlap([dbLoads EXCEPT ![l] =
                                    [IdleLoad EXCEPT
                                        !.pc = IF migrationDone THEN "query" ELSE "add",
                                        !.after = {k \in Loads : dbLoads[k].pc = "done"},
                                        !.before = table,
                                        !.overlapped = busy,
                                        !.pending = ~migrationDone,
                                        !.converted = converts,
                                        !.existing = IF migrationDone THEN <<>>
                                                     ELSE existing]], l)
    /\ clock' = now
    /\ UNCHANGED <<conversations, currentConversationId, chatContext,
                   isFileUploading, convStorage, oldChatStorage, navigations,
                   faults, sends, uploads, deletes, legacyPoll, lsCalls, stream,
                   dbCalls, dbPuts, table, migrationDone>>

(* lines 45-62: bulkAdd settles; the flag is set when it was accepted, and
   the catch block swallows its rejection *)
migrateAdd(l, kept) ==
    /\ dbLoads[l].pc = "add"
    /\ LET existing == dbLoads[l].existing
           added == IF Len(existing) > 0 THEN bulkAdd(table, existing, FALSE, kept)
                    ELSE [table |-> table, rejected |-> FALSE]
       IN /\ kept => numFailures(DOMAIN table, existing) > 0
          /\ table' = added.table
          /\ migrationDone' = (migrationDone \/ ~added.rejected)
          /\ dbLoads' = Overlap([dbLoads EXCEPT
                                    ![l].pc = "query",
                                    ![l].added = Len(existing) > 0 /\ ~added.rejected],
                                l)
    /\ UNCHANGED <<conversations, currentConversationId, chatContext,
                   isFileUploading, convStorage, oldChatStorage, clock, navigations,
                   faults, sends, uploads, deletes, legacyPoll, lsCalls, stream,
                   dbCalls, dbPuts>>

NextLoads ==
    \/ \E l \in Loads, now \in StoreInstants(clock) : loadBegin(l, now)
    \/ \E l \in Loads, kept \in BOOLEAN : migrateAdd(l, kept)
    \/ \E l \in Loads : loadQuery(l, FALSE)

SpecLoads == InitStore /\ [][NextLoads]_vars

-----------------------------------------------------------------------------
(* The localStorage store (localStorage.ts) called directly *)

(* lines 6-12: saveConversations(conversations) *)
callSave(conversations_, full) ==
    /\ Len(lsCalls) < MaxLog
    /\ setItem(full)
    /\ convStorage' = saveConversations(convStorage, full, conversations_)
    /\ lsCalls' = Append(lsCalls,
                         [op |-> "save", conversations |-> conversations_,
                          result |-> <<>>, conv |-> convStorage,
                          old |-> oldChatStorage, full |-> full, now |-> clock,
                          converted |-> FALSE])
    /\ UNCHANGED <<conversations, currentConversationId, chatContext,
                   isFileUploading, oldChatStorage, clock, navigations,
                   sends, uploads, deletes, legacyPoll, dbVars, stream>>

(* lines 14-40: loadConversations() *)
callLoad(full, now) ==
    /\ Len(lsCalls) < MaxLog
    /\ LET converts == ~convStorage.has /\ oldChatStorage.has
           loaded == loadConversations(convStorage, oldChatStorage, full, now)
       IN /\ full => converts
          /\ now # clock => converts
          /\ setItem(full)
          /\ convStorage' = loaded.conv
          /\ oldChatStorage' = loaded.old
          /\ clock' = now
          /\ lsCalls' = Append(lsCalls,
                               [op |-> "load", conversations |-> <<>>,
                                result |-> loaded.result, conv |-> convStorage,
                                old |-> oldChatStorage, full |-> full, now |-> now,
                                converted |-> converts])
    /\ UNCHANGED <<conversations, currentConversationId, chatContext,
                   isFileUploading, navigations, sends, uploads, deletes, legacyPoll, dbVars, stream>>

NextLocal ==
    \/ \E list \in StoreLists, full \in BOOLEAN : callSave(list, full)
    \/ \E full \in BOOLEAN, now \in StoreInstants(clock) : callLoad(full, now)

SpecLocal == InitStore /\ [][NextLocal]_vars

-----------------------------------------------------------------------------
(* streamChatMessage alone (axiosClient.ts, lines 46-78), with the bytes of
   the response.  A text is a sequence of code points, a chunk a sequence of
   bytes. *)

replacement == 65533

(* UTF-8: the bytes of one code point *)
encodeChar(cp) ==
    IF cp < 128 THEN <<cp>>
    ELSE IF cp < 2048 THEN <<192 + (cp \div 64), 128 + (cp % 64)>>
    ELSE IF cp < 65536
         THEN <<224 + (cp \div 4096), 128 + ((cp \div 64) % 64), 128 + (cp % 64)>>
         ELSE <<240 + (cp \div 262144), 128 + ((cp \div 4096) % 64),
                128 + ((cp \div 64) % 64), 128 + (cp % 64)>>

RECURSIVE encode(_)
encode(text) == IF text = <<>> THEN <<>> ELSE encodeChar(Head(text)) \o encode(Tail(text))

(* the number of bytes of the sequence a lead byte begins, 0 for a byte that
   begins none *)
sequenceLength(lead) ==
    IF lead < 128 THEN 1
    ELSE IF lead >= 194 /\ lead <= 223 THEN 2
    ELSE IF lead >= 224 /\ lead <= 239 THEN 3
    ELSE IF lead >= 240 /\ lead <= 244 THEN 4
    ELSE 0

(* the byte may follow the lead as the k-th byte of its sequence *)
continues(lead, k, byte) ==
    LET lower == IF k = 2 /\ lead = 224 THEN 160
                 ELSE IF k = 2 /\ lead = 240 THEN 144 ELSE 128
        upper == IF k = 2 /\ lead = 237 THEN 159
                 ELSE IF k = 2 /\ lead = 244 THEN 143 ELSE 191
    IN byte >= lower /\ byte <= upper

(* the code point of a complete sequence *)
codePoint(bytes) ==
    IF Len(bytes) = 1 THEN bytes[1]
    ELSE IF Len(bytes) = 2 THEN (bytes[1] - 192) * 64 + (bytes[2] - 128)
    ELSE IF Len(bytes) = 3
         THEN (bytes[1] - 224) * 4096 + (bytes[2] - 128) * 64 + (bytes[3] - 128)
         ELSE (bytes[1] - 240) * 262144 + (bytes[2] - 128) * 4096
                  + (bytes[3] - 128) * 64 + (bytes[4] - 128)

(* the UTF-8 decoder on the bytes at hand: the text they give, a byte that
   fits no sequence giving the replacement character, and the bytes of a
   sequence that is not complete yet *)
RECURSIVE decodeBytes(_)
decodeBytes(buf) ==
    IF buf = <<>> THEN [text |-> <<>>, pending |-> <<>>]
    ELSE LET lead == Head(buf)
             n == sequenceLength(lead)
             fits == {k \in 1..n : k <= Len(buf) /\ \A j \in 2..k : continues(lead, j, buf[j])}
             got == IF fits = {} THEN 0 ELSE CHOOSE k \in fits : \A j \in fits : j <= k
         IN IF n = 0
            THEN LET rest == decodeBytes(Tail(buf))
                 IN [text |-> <<replacement>> \o rest.text, pending |-> rest.pending]
            ELSE IF got = n
            THEN LET rest == decodeBytes(SubSeq(buf, n + 1, Len(buf)))
                 IN [text |-> <<codePoint(SubSeq(buf, 1, n))>> \o rest.text,
                     pending |-> rest.pending]
            ELSE IF got = Len(buf)
            THEN [text |-> <<>>, pending |-> buf]
            ELSE LET rest == decodeBytes(SubSeq(buf, got + 1, Len(buf)))
                 IN [text |-> <<replacement>> \o rest.text, pending |-> rest.pending]

(* a decoder that keeps nothing from one chunk to the next *)
decodeAlone(pending, value) ==
    LET d == decodeBytes(value)
    IN [text |-> d.text \o (IF d.pending = <<>> THEN <<>> ELSE <<replacement>>),
        pending |-> <<>>]

(* line 72: decoder.decode(value, { stream: true }), pending being the bytes
   the decoder holds *)
decode(pending, value) == decodeBytes(pending \o value)

(* an answer that fails in the same way whatever is wrong with it *)
responseErrorSame(response) ==
    IF response.ok /\ response.body THEN null ELSE Error(<<"Server Error">>)

(* lines 61-62: the error the response makes the call throw, null for none *)
responseError(response) ==
    IF ~response.ok THEN Error(<<"Server Error">>)
    ELSE IF ~response.body THEN Error(<<"ReadableStream not supported">>)
    ELSE null

(* lines 50-59: streamChatMessage is called and sends its request *)
streamCall ==
    /\ stream.pc = "idle"
    /\ stream' = [stream EXCEPT !.pc = "fetch", !.requests = @ + 1]
    /\ UNCHANGED <<conversations, currentConversationId, chatContext,
                   isFileUploading, convStorage, oldChatStorage, clock, navigations,
                   faults, sends, uploads, deletes, legacyPoll, dbVars, lsCalls>>

(* lines 53-66: the fetch settles *)
streamResponse(response, rejected) ==
    /\ stream.pc = "fetch"
    /\ rejected => response = [ok |-> TRUE, body |-> TRUE]
    /\ LET error == IF rejected THEN TypeError(<<"Failed to fetch">>)
                    ELSE responseError(response)
       IN stream' = IF error = null
                    THEN [stream EXCEPT !.pc = "read", !.response = response]
                    ELSE [stream EXCEPT !.pc = "done", !.response = response,
                                        !.outcome = "threw", !.thrown = error]
    /\ UNCHANGED <<conversations, currentConversationId, chatContext,
                   isFileUploading, convStorage, oldChatStorage, clock, navigations,
                   faults, sends, uploads, deletes, legacyPoll, dbVars, lsCalls>>

(* lines 69-74: a chunk is read, decoded, added and passed to onChunk *)
streamRead(value) ==
    /\ stream.pc = "read"
    /\ Len(stream.values) < MaxValues
    /\ LET chunk == decode(stream.pending, value)
           total == accumulate(stream.accumulatedText, chunk.text)
       IN stream' = [stream EXCEPT !.pending = chunk.pending,
                                   !.accumulatedText = total,
                                   !.values = @ \o <<value>>,
                                   !.decoded = @ \o <<chunk.text>>,
                                   !.snapshots = @ \o <<total>>]
    /\ UNCHANGED <<conversations, currentConversationId, chatContext,
                   isFileUploading, convStorage, oldChatStorage, clock, navigations,
                   faults, sends, uploads, deletes, legacyPoll, dbVars, lsCalls>>

(* lines 69-70 and 77: the stream ends *)
streamDone ==
    /\ stream.pc = "read"
    /\ stream' = [stream EXCEPT !.pc = "done", !.outcome = "returned",
                                !.returned = stream.accumulatedText]
    /\ UNCHANGED <<conversations, currentConversationId, chatContext,
                   isFileUploading, convStorage, oldChatStorage, clock, navigations,
                   faults, sends, uploads, deletes, legacyPoll, dbVars, lsCalls>>

(* line 69: reader.read() rejects *)
streamBroken ==
    /\ stream.pc = "read"
    /\ stream' = [stream EXCEPT !.pc = "done", !.outcome = "threw",
                                !.thrown = TypeError(<<"network error">>)]
    /\ UNCHANGED <<conversations, currentConversationId, chatContext,
                   isFileUploading, convStorage, oldChatStorage, clock, navigations,
                   faults, sends, uploads, deletes, legacyPoll, dbVars, lsCalls>>

(* the texts of the answers: "a" with a two-byte character, a three-byte
   character, a four-byte character *)
Texts == { <<97, 233>>, <<54620>>, <<128512>> }

(* the chunks of the transport: every run of bytes of an answer *)
Values ==
    UNION { { SubSeq(encode(text), i, j) :
                 i \in 1..(Len(encode(text)) + 1), j \in 0..Len(encode(text)) } :
            text \in Texts }

Responses == [ok : BOOLEAN, body : BOOLEAN]

NextStream ==
    \/ streamCall
    \/ \E response \in Responses, rejected \in BOOLEAN : streamResponse(response, rejected)
    \/ \E value \in Values : streamRead(value)
    \/ streamDone
    \/ streamBroken

SpecStream == Init /\ [][NextStream]_vars

(* the files of the delete modal; null when no file is chosen *)
Targets == { null, <<"f">> }

(* the flows begun so far *)
Begun == Started + Cardinality({d \in Deletes : deletes[d].pc # "idle"})

(* the poller of the Upload ends with this answer *)
ending(u, response, now) ==
    \/ response.http # 200
    \/ terminal(response.info)
    \/ timedOut(now, uploads[u].start)

(* the status request is answered; the last request the model allows comes
   after the 20 minutes when its answer is not final *)
pollAnswered(u) ==
    \E response \in PollResponses, now \in PollInstants(clock) :
        /\ uploads[u].requests < MaxPolls \/ ending(u, response, now)
        /\ pollSettled(u, response, now)

(* The flows of the App component with the documents: Sends of one prompt,
   Uploads, Delete document and the sidebar, with a localStorage that may be
   full when a conversation is deleted *)
NextDocs ==
    \/ handleNewChat
    \/ \E i \in 1..Len(conversations) : handleOpenConversation(conversations[i].id)
    \/ \E i \in 1..Len(conversations), full \in BOOLEAN :
           handleDeleteConversation(conversations[i].id, full)
    \/ \E f \in Sends, now \in Instants(clock) :
           Begun < MaxBegun /\ handleSendMessage(f, <<"a">>, now, FALSE)
    \/ \E f \in Sends : fetchNotOk(f, FALSE)
    \/ \E f \in Sends : fetchOk(f)
    \/ \E f \in Sends, decoded \in Decoded : readChunk(f, decoded)
    \/ \E f \in Sends : readDone(f, FALSE)
    \/ \E u \in Uploads, file \in Files :
           Begun < MaxBegun /\ handleFileSelect(u, file)
    \/ \E u \in Uploads, data \in UploadResponses : uploadSettled(u, data, clock)
    \/ \E u \in Uploads : pollAnswered(u)
    \/ \E u \in Uploads : pollWake(u)
    \/ \E u \in Uploads : documentsLoaded(u)
    \/ \E d \in Deletes, target \in Targets :
           Begun < MaxBegun /\ handleConfirmDelete(d, target)
    \/ \E d \in Deletes, ok \in BOOLEAN : deleteSettled(d, ok)
    \/ \E d \in Deletes : deleteDocumentsLoaded(d)

SpecDocs == Init /\ [][NextDocs]_vars

(* The four flows without New chat and Open conversation, at one instant of
   the clock for the Sends *)
NextFlows ==
    \/ \E i \in 1..Len(conversations) :
           handleDeleteConversation(conversations[i].id, FALSE)
    \/ \E f \in Sends :
           Begun < MaxBegun /\ handleSendMessage(f, <<"a">>, clock, FALSE)
    \/ \E f \in Sends : fetchNotOk(f, FALSE)
    \/ \E f \in Sends : fetchOk(f)
    \/ \E f \in Sends, decoded \in Decoded : readChunk(f, decoded)
    \/ \E f \in Sends : readDone(f, FALSE)
    \/ \E u \in Uploads, file \in Files :
           Begun < MaxBegun /\ handleFileSelect(u, file)
    \/ \E u \in Uploads, data \in UploadResponses : uploadSettled(u, data, clock)
    \/ \E u \in Uploads : pollAnswered(u)
    \/ \E u \in Uploads : pollWake(u)
    \/ \E u \in Uploads : documentsLoaded(u)
    \/ \E d \in Deletes :
           Begun < MaxBegun /\ handleConfirmDelete(d, <<"f">>)
    \/ \E d \in Deletes, ok \in BOOLEAN : deleteSettled(d, ok)
    \/ \E d \in Deletes : deleteDocumentsLoaded(d)

(* These flows when every call of a collaborator returns or fails in the
   end: the chat request and the reads of its stream, the upload request,
   the status requests and the waits between them, the delete request and the
   loads of the document list *)
SpecDocsFair ==
    /\ Init
    /\ [][NextFlows]_vars
    /\ \A f \in Sends : WF_vars(fetchNotOk(f, FALSE) \/ fetchOk(f))
    /\ \A f \in Sends :
           WF_vars((\E decoded \in Decoded : readChunk(f, decoded)) \/ readDone(f, FALSE))
    /\ \A u \in Uploads :
           WF_vars(\E data \in UploadResponses : uploadSettled(u, data, clock))
    /\ \A u \in Uploads : WF_vars(pollAnswered(u))
    /\ \A u \in Uploads : WF_vars(pollWake(u))
    /\ \A u \in Uploads : WF_vars(documentsLoaded(u))
    /\ \A d \in Deletes : WF_vars(\E ok \in BOOLEAN : deleteSettled(d, ok))
    /\ \A d \in Deletes : WF_vars(deleteDocumentsLoaded(d))

(* Three Sends of one prompt, with New chat, a failing and a successful
   chat request, and a localStorage that never throws *)
NextSends ==
    \/ handleNewChat
    \/ \E f \in Sends, now \in Instants(clock) :
           handleSendMessage(f, <<"a">>, now, FALSE)
    \/ \E f \in Sends : fetchNotOk(f, FALSE)
    \/ \E f \in Sends : fetchOk(f)
    \/ \E f \in Sends : readDone(f, FALSE)

SpecSends == Init /\ [][NextSends]_vars

(* The same three Sends with a localStorage that may refuse a write *)
NextSendsFull ==
    \/ handleNewChat
    \/ \E f \in Sends, now \in Instants(clock), full \in BOOLEAN :
           handleSendMessage(f, <<"a">>, now, full)
    \/ \E f \in Sends : fetchNotOk(f, FALSE)
    \/ \E f \in Sends : fetchOk(f)
    \/ \E f \in Sends, full \in BOOLEAN : readDone(f, full)

SpecSendsFull == Init /\ [][NextSendsFull]_vars

-----------------------------------------------------------------------------
(* Properties *)

ids(convs) == { convs[i].id : i \in 1..Len(convs) }

(* the messages the list holds under id: one element per record with that id *)
messagesOf(convs, id) ==
    { convs[i].messages : i \in { j \in 1..Len(convs) : convs[j].id = id } }

(* the Send f has ended in this step *)
Ends(f) == inFlight(sends[f]) /\ sends'[f].pc = "done"

(* the Send f has passed a snapshot to onChunk in this step *)
Snapshots(f) == Len(sends'[f].chunks) = Len(sends[f].chunks) + 1

(* the Send f was started in this step *)
Starts(f) == sends[f].pc = "idle" /\ sends'[f].pc = "fetch"

RECURSIVE concat(_)
concat(chunks) == IF chunks = <<>> THEN <<>>
                  ELSE concat(SubSeq(chunks, 1, Len(chunks) - 1)) \o chunks[Len(chunks)]

isPlaceholder(msg) ==
    /\ msg.role = "model"
    /\ msg.uploadStatus = NoStatus
    /\ Len(msg.parts) = 1
    /\ msg.parts[1].text = <<>>

(* C1: when Delete(A) runs while a Send for A is streaming, then after that
   Send has ended neither the store nor the in-memory list contains A. *)
C1_NoResurrection ==
    [][\A f \in Sends :
          (Ends(f) /\ sends[f].deleted = "mid") =>
              /\ sends[f].convId \notin ids(convStorage'.value)
              /\ sends[f].convId \notin ids(conversations')]_vars

(* C2: when New conversation runs while a Send is streaming, no later snapshot
   or completion of that Send changes the buffer or the active id, a snapshot
   writes nothing to the store, and nothing is saved under the null id. *)
C2_StaleSendDiscarded ==
    [][\A f \in Sends :
          (sends[f].newChatMid /\ (Snapshots(f) \/ Ends(f))) =>
              /\ chatContext' = chatContext
              /\ currentConversationId' = currentConversationId
              /\ Snapshots(f) => convStorage' = convStorage
              /\ null \notin ids(convStorage'.value)]_vars

(* C3: when a Send on B starts while a Send on another conversation A is
   streaming and both complete (no deletion, every save accepted), the store
   then holds A and B, each with its own user message followed by its own final
   model message. *)
C3_NoLostUpdate ==
    [][\A f \in Sends, g \in Sends :
          ( /\ f \in sends[g].overlap
            /\ sends[f].convId # sends[g].convId
            /\ \/ sends[f].pc = "done" /\ Ends(g)
               \/ sends[g].pc = "done" /\ Ends(f)
            /\ sends'[f].error = <<>> /\ sends'[g].error = <<>>
            /\ sends'[f].saved /\ sends'[g].saved
            /\ sends'[f].deleted = "no" /\ sends'[g].deleted = "no" ) =>
              \A h \in {f, g} :
                  messagesOf(convStorage'.value, sends[h].convId) =
                      { finalContext(sends[h].newContext, sends[h].accumulatedText) }]_vars

(* C4: right after every accepted save of a Send (the first persistence point,
   the completion and the failure), the persisted messages of the active
   conversation equal the buffer. *)
C4_BufferEqualsPersisted ==
    [][\A f \in Sends :
          ((Starts(f) \/ Ends(f)) /\ sends'[f].saved) =>
              messagesOf(convStorage'.value, currentConversationId') = {chatContext'}]_vars

(* C5: no two conversations share an id, in the store or in memory. *)
C5_UniqueIds ==
    /\ \A i \in 1..Len(conversations), j \in 1..Len(conversations) :
          conversations[i].id = conversations[j].id => i = j
    /\ \A i \in 1..Len(convStorage.value), j \in 1..Len(convStorage.value) :
          convStorage.value[i].id = convStorage.value[j].id => i = j

(* C6: a Send of the text T that completes cleanly leaves, when it started
   with an empty store and no active conversation, exactly one persisted
   conversation with title T and messages [user T, final model message]; when
   it started in an active conversation, that record's messages are the prior
   messages followed by the user message and the final model message. *)
C6_SendPersistsTurn ==
    [][\A f \in Sends :
          (Ends(f) /\ sends'[f].error = <<>> /\ sends'[f].saved
                   /\ sends[f].saved /\ sends[f].deleted = "no") =>
              LET s == sends[f]
                  final == Message("model", s.accumulatedText, "none")
              IN /\ s.freshStart =>
                      /\ Len(convStorage'.value) = 1
                      /\ convStorage'.value[1].title = s.text
                      /\ convStorage'.value[1].messages
                            = <<userMessage(s.text), final>>
                 /\ s.activeAtStart # null =>
                      messagesOf(convStorage'.value, s.activeAtStart)
                          = { s.newContext \o <<final>> }]_vars

(* C7: no persisted conversation ever contains the placeholder, a model
   message whose only part has empty text. *)
C7_NoPersistedPlaceholder ==
    \A i \in 1..Len(convStorage.value) :
        \A k \in 1..Len(convStorage.value[i].messages) :
            ~isPlaceholder(convStorage.value[i].messages[k])

(* C8: when the chat request of a Send fails, the buffer and the persisted
   record of the originating conversation are the prior messages, the user
   message and exactly one model message with the error icon. *)
C8_FailurePersisted ==
    [][\A f \in Sends :
          (Ends(f) /\ sends'[f].error # <<>> /\ sends'[f].saved
                   /\ sends[f].deleted = "no") =>
              \E m \in { chatContext'[Len(chatContext')] } :
                  /\ m.role = "model"
                  /\ m.parts[1].icon = "error"
                  /\ chatContext' = sends[f].newContext \o <<m>>
                  /\ messagesOf(convStorage'.value, sends[f].convId)
                        = { chatContext' }]_vars


isPrefix(a, b) == Len(a) <= Len(b) /\ SubSeq(b, 1, Len(a)) = a

(* C9: from the placeholder of a Send until the Send ends, with no other flow
   or handler in between, the buffer is the prior messages, the user message
   and exactly one model message: the placeholder, the latest snapshot, the
   final text or the error. *)
C9_OneModelMessage ==
    /\ [](\A f \in Sends :
             (inFlight(sends[f]) /\ ~sends[f].interleaved) =>
                 chatContext = sends[f].newContext
                     \o <<Message("model", concat(sends[f].chunks), "none")>>)
    /\ [][\A f \in Sends :
             (Ends(f) /\ ~sends'[f].interleaved) =>
                 \E m \in { chatContext'[Len(chatContext')] } :
                     /\ chatContext' = sends[f].newContext \o <<m>>
                     /\ m.role = "model"
                     /\ IF sends'[f].error = <<>>
                        THEN m = Message("model", concat(sends[f].chunks), "none")
                        ELSE m.parts[1].icon = "error"]_vars

C9_Witness ==
    \E f \in Sends :
        /\ sends[f].pc = "done"
        /\ ~sends[f].interleaved
        /\ sends[f].error = <<>>
        /\ Len(sends[f].chunks) = MaxChunks
        /\ Len(sends[f].newContext) > 1
        /\ chatContext = sends[f].newContext
               \o <<Message("model", concat(sends[f].chunks), "none")>>

(* C10: within one Send or Upload the buffer follows the order of the events:
   after the k-th snapshot the model text is the k-th snapshot, after a status
   callback the buffer shows the latest status, the completion is written
   after every progress write, and an ended flow writes nothing more. *)
C10_InOrder ==
    [][ /\ \A f \in Sends :
              /\ isPrefix(sends[f].chunks, sends'[f].chunks)
              /\ Snapshots(f) =>
                    chatContext' = sends[f].newContext
                        \o <<Message("model", concat(sends'[f].chunks), "none")>>
              /\ (Ends(f) /\ sends'[f].error = <<>>) =>
                    /\ sends'[f].chunks = sends[f].chunks
                    /\ chatContext' = sends[f].newContext
                           \o <<Message("model", concat(sends[f].chunks), "none")>>
              /\ sends[f].pc = "done" =>
                    sends'[f].pc = "done" /\ sends'[f].chunks = sends[f].chunks
        /\ \A u \in Uploads :
              LET a == uploads[u]
                  b == uploads'[u]
              IN /\ isPrefix(a.callbacks, b.callbacks)
                 /\ (b.callbacks # a.callbacks /\ b.pc = "wait") =>
                       chatContext' = a.newContext
                           \o <<progressMsg(b.callbacks[Len(b.callbacks)])>>
                 /\ (a.pc \in {"upload", "poll"} /\ b.pc \in {"refresh", "done"}) =>
                       /\ Len(chatContext') = Len(a.newContext) + 1
                       /\ SubSeq(chatContext', 1, Len(a.newContext)) = a.newContext
                       /\ chatContext'[Len(chatContext')].uploadStatus = NoStatus
                 /\ a.pc \in {"refresh", "done"} => b.callbacks = a.callbacks
                 /\ a.pc = "done" => b = a ]_vars

C10_Witness ==
    /\ \E f \in Sends :
          /\ sends[f].pc = "done"
          /\ sends[f].error = <<>>
          /\ Len(sends[f].chunks) = MaxChunks
    /\ \E u \in Uploads :
          /\ uploads[u].pc = "wait"
          /\ Len(uploads[u].callbacks) = MaxPolls
          /\ chatContext = uploads[u].newContext
                 \o <<progressMsg(uploads[u].callbacks[MaxPolls])>>

-----------------------------------------------------------------------------
(* Properties of the poll sessions *)

(* a status request of the upload u has been answered in this step *)
Answered(u) == Len(uploads'[u].received) = Len(uploads[u].received) + 1

(* the answer of this step *)
answer(u) == uploads'[u].received[Len(uploads'[u].received)]

(* the statuses this step has passed to the callback of u *)
delivered(u) ==
    SubSeq(uploads'[u].callbacks, Len(uploads[u].callbacks) + 1,
           Len(uploads'[u].callbacks))

(* a status request of the legacy script has been answered in this step *)
LegacyAnswered == legacyPoll.pc = "poll" /\ legacyPoll'.pc # "poll"

isTerminal(info) == info.status \in {"done", "failed"}

isStatus(response) == response.http = 200

(* the status to synthesize when the session times out after info *)
synthesized(info) ==
    [status |-> "failed", message |-> <<"timeout">>,
     progress |-> IF info.progress > 0 THEN info.progress ELSE 0]

(* C11: when more than 20 minutes have passed since the start of the session
   and the latest answer is a non-terminal status, the poller passes exactly
   one synthesized status {failed, timeout, last progress or 0} to the callback
   and fails with the timeout error: no return, no retry, no further
   request. *)
C11_TimeoutFails ==
    [][ /\ \A u \in Uploads :
              ( /\ Answered(u)
                /\ isStatus(answer(u)) /\ ~isTerminal(answer(u).info)
                /\ clock' - uploads[u].start > maxTimeout ) =>
                  /\ delivered(u) = <<answer(u).info, synthesized(answer(u).info)>>
                  /\ uploads'[u].outcome = "threw"
                  /\ uploads'[u].thrown = <<"Polling timeout">>
                  /\ uploads'[u].pc = "done"
        /\ ( /\ LegacyAnswered
             /\ isStatus(legacyPoll'.answer) /\ ~isTerminal(legacyPoll'.answer.info)
             /\ clock' - legacyPoll.start > maxTimeout ) =>
               /\ legacyPoll'.delivered
                     = <<legacyPoll'.answer.info, synthesized(legacyPoll'.answer.info)>>
               /\ legacyPoll'.outcome = "threw"
               /\ legacyPoll'.thrown = <<"Polling timeout">>
               /\ legacyPoll'.pc = "done" ]_vars

(* C12: every poll session ends by returning or failing; once more than 20
   minutes have passed since its start, no schedule of answers keeps it
   polling. *)
C12_PollTerminates ==
    (legacyPoll.pc \in {"poll", "wait"} /\ clock - legacyPoll.start > maxTimeout)
        ~> (legacyPoll.pc = "done")

(* C13: the poller never synthesizes the timeout status and never fails with
   the timeout error while at most 20 minutes have passed since the start of
   the session. *)
C13_NoEarlyTimeout ==
    [][ /\ \A u \in Uploads :
              ( \/ uploads'[u].thrown # uploads[u].thrown
                     /\ uploads'[u].thrown = <<"Polling timeout">>
                \/ \E i \in 1..Len(delivered(u)) :
                      delivered(u)[i].message = <<"timeout">> ) =>
                  clock' - uploads[u].start > maxTimeout
        /\ ( /\ LegacyAnswered
             /\ \E i \in 1..Len(legacyPoll'.delivered) :
                   legacyPoll'.delivered[i].message = <<"timeout">> ) =>
               clock' - legacyPoll.start > maxTimeout ]_vars

C13_Witness ==
    \E u \in Uploads :
        /\ uploads[u].outcome = "threw"
        /\ uploads[u].thrown = <<"Polling timeout">>
        /\ clock - uploads[u].start = maxTimeout + 1
        /\ Len(uploads[u].received) > 1
        /\ Len(uploads[u].callbacks) = Len(uploads[u].received) + 1

(* C14: a failed status request that is not a 404 is retried: through up to 5
   failures in a row the poller waits the current interval and polls again,
   it fails with the network error only on the 6th failure in a row, and a
   successful answer resets the count. *)
C14_RetriesFiveTimes ==
    [][ /\ \A u \in Uploads :
              uploads'[u].failures = uploads[u].failures + 1 =>
                  IF uploads'[u].failures <= 5
                  THEN /\ uploads'[u].pc = "wait"
                       /\ uploads'[u].outcome = "none"
                       /\ uploads'[u].waits = uploads[u].waits \o <<uploads[u].interval>>
                  ELSE /\ uploads'[u].pc = "done"
                       /\ uploads'[u].outcome = "threw"
        /\ legacyPoll'.failures = legacyPoll.failures + 1 =>
              IF legacyPoll'.failures <= 5
              THEN /\ legacyPoll'.pc = "wait"
                   /\ legacyPoll'.outcome = "none"
                   /\ legacyPoll'.waited = legacyPoll.interval
              ELSE /\ legacyPoll'.pc = "done"
                   /\ legacyPoll'.outcome = "threw"
        /\ (LegacyAnswered /\ isStatus(legacyPoll'.answer)
                           /\ legacyPoll'.outcome # "threw"
                           /\ clock' - legacyPoll.start <= maxTimeout) =>
              legacyPoll'.consecutiveFailures = 0 ]_vars


(* C15: a 404 answer is terminal at once: the callback gets it exactly once as
   {failed, not found, 0}, the poller returns normally, and no retry and no
   wait follow. *)
C15_NotFoundIsTerminal ==
    [][ /\ \A u \in Uploads :
              (Answered(u) /\ answer(u).http = 404) =>
                  /\ delivered(u) = << [status |-> "failed",
                                       message |-> <<"task not found">>,
                                       progress |-> 0] >>
                  /\ uploads'[u].outcome = "returned"
                  /\ uploads'[u].returned.status = "failed"
                  /\ uploads'[u].pc \notin {"poll", "wait"}
                  /\ uploads'[u].waits = uploads[u].waits
                  /\ uploads'[u].requests = uploads[u].requests
        /\ (LegacyAnswered /\ legacyPoll'.answer.http = 404) =>
              /\ legacyPoll'.delivered = << [status |-> "failed",
                                            message |-> <<"task not found">>,
                                            progress |-> 0] >>
              /\ legacyPoll'.outcome = "returned"
              /\ legacyPoll'.returned.status = "failed"
              /\ legacyPoll'.pc = "done"
              /\ legacyPoll'.waited = legacyPoll.waited ]_vars

C15_Witness ==
    \E u \in Uploads :
        /\ Len(uploads[u].received) = 1
        /\ uploads[u].received[1].http = 404
        /\ Len(uploads[u].callbacks) = 1
        /\ uploads[u].outcome = "returned"
        /\ uploads[u].waits = <<>>
        /\ clock = uploads[u].start

infos(received) == [i \in 1..Len(received) |-> received[i].info]

(* C16: when the answers r1..rn are statuses and rn is the first terminal one,
   the callback is invoked exactly n times, with r1..rn in that order, and
   the poller returns rn. *)
C16_CallbacksInOrder ==
    /\ [](\A u \in Uploads :
             LET up == uploads[u]
             IN /\ \A i \in 1..(Len(up.received) - 1) :
                      isStatus(up.received[i]) /\ ~isTerminal(up.received[i].info)
                /\ (up.thrown = <<>> /\ \A i \in 1..Len(up.received) :
                                           isStatus(up.received[i])) =>
                      up.callbacks = infos(up.received))
    /\ [][\A u \in Uploads :
             (Answered(u) /\ isStatus(answer(u)) /\ isTerminal(answer(u).info)) =>
                 /\ uploads'[u].callbacks = infos(uploads'[u].received)
                 /\ uploads'[u].outcome = "returned"
                 /\ uploads'[u].returned = answer(u).info]_vars

C16_Witness ==
    \E u \in Uploads :
        /\ infos(uploads[u].received)
              = << UploadStatusInfo("uploaded", <<>>, -1),
                   UploadStatusInfo("processing", <<>>, 30),
                   UploadStatusInfo("processing", <<>>, 70),
                   UploadStatusInfo("done", <<>>, 100) >>
        /\ uploads[u].callbacks = infos(uploads[u].received)
        /\ uploads[u].outcome = "returned"
        /\ uploads[u].returned = UploadStatusInfo("done", <<>>, 100)

(* C17: an answer with status done or failed stops the loop and is returned
   as a value: no further request, no further wait, no error, no retry. *)
C17_TerminalIsReturned ==
    /\ [][ /\ \A u \in Uploads :
                 (Answered(u) /\ isStatus(answer(u)) /\ isTerminal(answer(u).info)) =>
                     /\ uploads'[u].outcome = "returned"
                     /\ uploads'[u].returned = answer(u).info
                     /\ uploads'[u].thrown = <<>>
                     /\ uploads'[u].pc \notin {"poll", "wait"}
                     /\ uploads'[u].waits = uploads[u].waits
           /\ (LegacyAnswered /\ isStatus(legacyPoll'.answer)
                              /\ isTerminal(legacyPoll'.answer.info)) =>
                 /\ legacyPoll'.outcome = "returned"
                 /\ legacyPoll'.returned = legacyPoll'.answer.info
                 /\ legacyPoll'.thrown = <<>>
                 /\ legacyPoll'.pc = "done"
                 /\ legacyPoll'.waited = legacyPoll.waited ]_vars
    /\ [](\A u \in Uploads :
             uploads[u].outcome # "none" =>
                 /\ uploads[u].pc \notin {"poll", "wait"}
                 /\ uploads[u].requests = Len(uploads[u].received))

C17_Witness ==
    \E u \in Uploads :
        /\ uploads[u].outcome = "returned"
        /\ uploads[u].returned = UploadStatusInfo("failed", <<"bad file">>, -1)
        /\ uploads[u].thrown = <<>>
        /\ Len(uploads[u].received) = 2
        /\ uploads[u].pc = "done"

schedule(k) == IF k = 1 THEN 2000 ELSE IF k = 2 THEN 4000 ELSE 5000

(* C18: within a poll session the waits are 2000, 4000, 5000, 5000, ... ms:
   the interval starts at 2000, doubles after every non-terminal answer up to
   5000, never goes down, and every new session starts again at 2000. *)
C18_BackoffSchedule ==
    /\ [](\A u \in Uploads :
             /\ \A k \in 1..Len(uploads[u].waits) : uploads[u].waits[k] = schedule(k)
             /\ uploads[u].pc = "wait" =>
                   Len(uploads[u].waits) = Len(uploads[u].received))
    /\ [][ (legacyPoll.pc = "poll" /\ legacyPoll'.pc = "wait") =>
               legacyPoll'.waited = IF legacyPoll.waited = 0 THEN 2000
                                    ELSE IF legacyPoll.waited = 2000 THEN 4000
                                    ELSE 5000 ]_vars

C18_Witness ==
    \E u \in Uploads, v \in Uploads :
        /\ uploads[u].waits = <<2000, 4000, 5000>>
        /\ uploads[u].interval = maxInterval
        /\ uploads[u].pc = "done"
        /\ uploads[v].waits = <<2000, 4000>>
        /\ uploads[v].pc = "wait"

-----------------------------------------------------------------------------
(* The conversation stores *)

(* the table that holds exactly the records of the list *)
tableOf(list) == addAll(<<>>, list)

(* C19: when a call of save(conversations) fails, the persisted collection is
   what it was before the call (the one-time migration apart), so a load() after the failed call returns the
   list stored before it: in the IndexedDB store for a call that ran alone, in
   the localStorage store for a write the storage refused. *)
C19_FailedSaveKeepsState ==
    [][/\ \A c \in Calls :
            (/\ dbCalls[c].outcome = "none"
             /\ dbCalls'[c].outcome = "rejected"
             /\ ~dbCalls'[c].overlapped)
            => toArray(table') = toArray(dbCalls[c].before)
       /\ faults' > faults => convStorage' = convStorage]_vars

(* C20: when two overlapping calls save(X) and save(Y) have both ended and the
   storage failed under neither, neither call has failed, and the persisted
   collection holds exactly the records of X or exactly the records of Y. *)
C20_AtomicReplace ==
    \A c \in Calls : \A d \in Calls \ {c} :
        (/\ dbCalls[c].pc = "done" /\ dbCalls[d].pc = "done"
         /\ dbCalls[c].overlapped /\ dbCalls[d].overlapped
         /\ ~dbCalls[c].fault /\ ~dbCalls[d].fault)
        => /\ dbCalls[c].outcome = "resolved"
           /\ dbCalls[d].outcome = "resolved"
           /\ table \in {tableOf(dbCalls[c].conversations),
                          tableOf(dbCalls[d].conversations)}

(* the localStorage items after the k-th direct call of the store *)
convAfter(k) == IF k < Len(lsCalls) THEN lsCalls[k + 1].conv ELSE convStorage

oldAfter(k) == IF k < Len(lsCalls) THEN lsCalls[k + 1].old ELSE oldChatStorage

distinctIds(list) ==
    \A i \in 1..Len(list), j \in 1..Len(list) : list[i].id = list[j].id => i = j

(* the list holds exactly the conversations of the other list *)
sameConversations(result, list) ==
    /\ Len(result) = Len(list)
    /\ {result[i] : i \in 1..Len(result)} = {list[i] : i \in 1..Len(list)}

(* C21: a load() after a save(C) that succeeded, C having distinct ids,
   returns a list holding exactly the conversations of C: in the localStorage
   store, and in the IndexedDB store when the call of load follows the call of
   save and the storage refused nothing. *)
C21_RoundTrip ==
    /\ \A k \in 2..Len(lsCalls) :
           (/\ lsCalls[k].op = "load"
            /\ lsCalls[k - 1].op = "save"
            /\ ~lsCalls[k - 1].full
            /\ distinctIds(lsCalls[k - 1].conversations))
           => sameConversations(lsCalls[k].result, lsCalls[k - 1].conversations)
    /\ \A l \in Loads, c \in Calls :
           (/\ dbLoads[l].pc = "done"
            /\ dbLoads[l].saves = {c}
            /\ dbLoads[l].after = {}
            /\ dbLoads[l].puts = dbCalls[c].puts
            /\ dbCalls[c].outcome = "resolved"
            /\ ~dbCalls[c].overlapped /\ ~dbLoads[l].overlapped
            /\ ~dbCalls[c].fault /\ ~dbLoads[l].fault
            /\ distinctIds(dbCalls[c].conversations))
           => sameConversations(dbLoads[l].result, dbCalls[c].conversations)

(* the list is ordered by createdAt, most recent first *)
descending(list) ==
    \A i \in 1..Len(list), j \in 1..Len(list) :
        i < j => ~lessText(list[i].createdAt, list[j].createdAt)

(* C22: every list that load() returns is ordered by createdAt descending,
   whatever the order save wrote, in both stores, and so is the list of the
   App component. *)
C22_LoadOrdered ==
    /\ \A k \in 1..Len(lsCalls) : lsCalls[k].op = "load" => descending(lsCalls[k].result)
    /\ \A l \in Loads : dbLoads[l].pc = "done" => descending(dbLoads[l].result)
    /\ descending(conversations)

(* the list is the conversion of the legacy messages at the time now: one
   conversation with these messages, id and createdAt the time, and for title
   the first text part of the first user message, or the fallback title when
   no message is of the user *)
isConversion(list, msgs, now) ==
    LET users == {i \in 1..Len(msgs) : msgs[i].role = "user"}
        first == CHOOSE i \in users : \A j \in users : i <= j
    IN /\ Len(list) = 1
       /\ list[1].messages = msgs
       /\ list[1].id = toString(now)
       /\ list[1].createdAt = toString(now)
       /\ list[1].title = IF users = {} THEN FallbackTitle(toString(now))
                          ELSE msgs[first].parts[1].text

(* C23: a load() that finds a legacy record and no current-format record
   returns the conversion of the legacy messages, and after it the
   current-format record holds exactly that list and the legacy key is
   deleted: in the localStorage store, and in the IndexedDB store for the
   first call, when the storage refused nothing. *)
C23_LegacyMigrated ==
    /\ \A k \in 1..Len(lsCalls) :
           (lsCalls[k].op = "load" /\ ~lsCalls[k].conv.has /\ lsCalls[k].old.has)
           => /\ isConversion(lsCalls[k].result, lsCalls[k].old.value, lsCalls[k].now)
              /\ convAfter(k) = Stored(lsCalls[k].result)
              /\ oldAfter(k) = Absent
    /\ \A l \in Loads :
           (/\ dbLoads[l].pc = "done" /\ dbLoads[l].converted
            /\ ~dbLoads[l].fault /\ started = 1)
           => /\ Len(dbLoads[l].result) = 1
              /\ table = tableOf(dbLoads[l].result)
              /\ oldChatStorage = Absent

(* the calls that converted the legacy record *)
conversions ==
    Cardinality({k \in 1..Len(lsCalls) : lsCalls[k].converted})
        + Cardinality({c \in Calls : dbCalls[c].converted})
        + Cardinality({l \in Loads : dbLoads[l].converted})

(* C24: a load() that finds a current-format record, an empty list included,
   returns it and neither converts nor deletes the legacy record, and over
   the calls of load and save the legacy record is converted at most once:
   in the localStorage store, and in the IndexedDB store when the storage
   refused nothing. *)
C24_MigratesOnce ==
    /\ \A k \in 1..Len(lsCalls) :
           (lsCalls[k].op = "load" /\ lsCalls[k].conv.has)
           => /\ lsCalls[k].result = lsCalls[k].conv.value
              /\ ~lsCalls[k].converted
              /\ oldAfter(k) = lsCalls[k].old
    /\ \A l \in Loads :
           (/\ dbLoads[l].pc = "done" /\ dbLoads[l].before # <<>>
            /\ ~dbLoads[l].fault /\ ~dbLoads[l].overlapped)
           => /\ dbLoads[l].result = toArray(dbLoads[l].before)
              /\ ~dbLoads[l].converted
    /\ faults = 0 => conversions <= 1

(* C25: with only a legacy record present, two successive calls of load()
   return the same one-conversation list: the first converts the legacy record
   and removes the legacy key, the second converts nothing. *)
C25_MigrationIdempotent ==
    /\ (/\ Len(lsCalls) >= 2
        /\ lsCalls[1].op = "load" /\ lsCalls[2].op = "load"
        /\ ~lsCalls[1].conv.has /\ lsCalls[1].old.has)
       => /\ lsCalls[1].converted /\ ~lsCalls[2].converted
          /\ lsCalls[2].old = Absent
          /\ Len(lsCalls[1].result) = 1
          /\ lsCalls[2].result = lsCalls[1].result
    /\ (/\ dbLoads[1].pc = "done" /\ dbLoads[2].pc = "done"
        /\ dbLoads[2].after = {1} /\ started = 2
        /\ dbLoads[1].converted
        /\ ~dbLoads[1].fault /\ ~dbLoads[2].fault)
       => /\ ~dbLoads[2].converted
          /\ oldChatStorage = Absent
          /\ Len(dbLoads[1].result) = 1
          /\ dbLoads[2].result = dbLoads[1].result

-----------------------------------------------------------------------------
(* streamChatMessage *)

(* the first k of the sequences, joined *)
RECURSIVE joined(_, _)
joined(seqs, k) == IF k = 0 THEN <<>> ELSE joined(seqs, k - 1) \o seqs[k]

(* C26: streamChatMessage calls the callback once for each chunk, in order,
   the k-th time with the decoded text of the first k chunks joined (the total
   and not the last chunk's text), so that every snapshot extends the one
   before; when the stream ends it returns the text of all the chunks, which
   is the last snapshot, the empty text when no chunk came. *)
C26_TotalSoFar ==
    /\ Len(stream.snapshots) = Len(stream.values)
    /\ \A k \in 1..Len(stream.snapshots) :
           /\ stream.snapshots[k] = joined(stream.decoded, k)
           /\ stream.snapshots[k] = decodeBytes(joined(stream.values, k)).text
           /\ k > 1 => isPrefix(stream.snapshots[k - 1], stream.snapshots[k])
    /\ stream.outcome = "returned"
       => /\ stream.returned = joined(stream.decoded, Len(stream.decoded))
          /\ stream.returned = IF stream.snapshots = <<>> THEN <<>>
                               ELSE stream.snapshots[Len(stream.snapshots)]

C26_Witness ==
    /\ stream.outcome = "returned"
    /\ Len(stream.values) = 3
    /\ \A k \in 1..3 : stream.decoded[k] # <<>>
    /\ stream.returned = stream.snapshots[3]

C26_WitnessEmpty ==
    /\ stream.outcome = "returned"
    /\ stream.values = <<>>
    /\ stream.returned = <<>>

(* the two chunks the bytes make when cut after the i-th *)
split(bytes, i) == <<SubSeq(bytes, 1, i), SubSeq(bytes, i + 1, Len(bytes))>>

corrupted(text) == \E k \in 1..Len(text) : text[k] = replacement

(* C27: when the bytes of a text with multi-byte characters come in two
   chunks, cut at any byte, streamChatMessage returns the text: the bytes of a
   character cut by the boundary are kept back and completed, and no snapshot
   holds a corrupted character. *)
C27_ChunkBoundary ==
    \A text \in Texts : \A i \in 0..Len(encode(text)) :
        (stream.outcome = "returned" /\ stream.values = split(encode(text), i))
        => /\ stream.returned = text
           /\ \A k \in 1..Len(stream.snapshots) : ~corrupted(stream.snapshots[k])

C27_Witness ==
    /\ stream.outcome = "returned"
    /\ stream.values = <<<<240, 159>>, <<152, 128>>>>
    /\ stream.snapshots = <<<<>>, <<128512>>>>
    /\ stream.returned = <<128512>>

(* C28: when the response has a status that is not a success, or no body
   stream, streamChatMessage throws without having called the callback, has
   sent one request and no more, and the error tells the two failures apart:
   one error for the status, another for the missing stream. *)
C28_FailsOnce ==
    /\ stream.requests <= 1
    /\ (stream.pc = "done" /\ ~(stream.response.ok /\ stream.response.body))
       => /\ stream.outcome = "threw"
          /\ stream.snapshots = <<>>
          /\ stream.values = <<>>
          /\ stream.requests = 1
          /\ ~stream.response.ok
             => stream.thrown = Error(<<"Server Error">>)
          /\ (stream.response.ok /\ ~stream.response.body)
             => /\ stream.thrown = Error(<<"ReadableStream not supported">>)
                /\ stream.thrown # Error(<<"Server Error">>)

C28_Witness ==
    /\ stream.pc = "done"
    /\ stream.response = [ok |-> TRUE, body |-> FALSE]
    /\ stream.outcome = "threw"
    /\ stream.thrown = Error(<<"ReadableStream not supported">>)
    /\ stream.requests = 1

C28_WitnessStatus ==
    /\ stream.pc = "done"
    /\ ~stream.response.ok
    /\ stream.thrown = Error(<<"Server Error">>)


-----------------------------------------------------------------------------
(* Upload: the buffer *)

(* C29: while an Upload polls, after every progress callback the buffer is
   the upload's user message and one model message with the latest
   uploadStatus: the progress messages replace one another and do not add up,
   whatever the number of polls. *)
C29_OneProgressMessage ==
    [][\A u \in Uploads :
          uploads'[u].callbacks # uploads[u].callbacks
          => LET up == uploads'[u]
                 latest == up.callbacks[Len(up.callbacks)]
                 buffer == up.progressContext
             IN /\ Len(up.newContext) = 1
                /\ up.newContext[1].role = "user"
                /\ buffer = up.newContext \o <<progressMsg(latest)>>
                /\ Len(buffer) = 2
                /\ buffer[2].uploadStatus = latest
                /\ up.pc = "wait" => chatContext' = buffer]_vars

C29_Witness ==
    \E u \in Uploads :
        /\ uploads[u].pc = "wait"
        /\ Len(uploads[u].callbacks) = 3
        /\ uploads[u].callbacks[3] # uploads[u].callbacks[1]
        /\ chatContext = uploads[u].newContext
                            \o <<progressMsg(uploads[u].callbacks[3])>>

(* every Upload that began has ended *)
uploadsEnded ==
    /\ \E u \in Uploads : uploads[u].pc = "done"
    /\ \A u \in Uploads : uploads[u].pc \in {"idle", "done"}

plain(msg) == msg.uploadStatus = NoStatus

(* C30: when the poller returns, the progress message is replaced by a plain
   message, without uploadStatus: the success message, followed by the refresh
   of the document list, when the final status is done, an error message and
   no refresh when it is failed; once the flow has ended no message of the
   buffer carries an uploadStatus. *)
C30_PlainAtEnd ==
    /\ [][\A u \in Uploads :
             (uploads[u].outcome = "none" /\ uploads'[u].outcome = "returned")
             => LET up == uploads'[u]
                IN /\ Len(chatContext') = 2
                   /\ chatContext'[1] = up.newContext[1]
                   /\ plain(chatContext'[2])
                   /\ IF up.returned.status = "done"
                      THEN /\ chatContext'[2] = uploadDoneMsg(up.file)
                           /\ up.pc = "refresh"
                      ELSE /\ chatContext'[2] = uploadFailedMsg(up.returned)
                           /\ chatContext'[2].parts[1].icon = "error"
                           /\ up.pc = "done"
                           /\ ~up.refreshed]_vars
    /\ [](\A u \in Uploads :
             (uploads[u].pc = "done" /\ uploads[u].outcome = "returned")
             => (uploads[u].refreshed <=> uploads[u].returned.status = "done"))
    /\ [](uploadsEnded => \A k \in 1..Len(chatContext) : plain(chatContext[k]))

(* C31: when the poller of an Upload throws (timeout, network failure), or
   the upload request itself fails, the error is shown: the flow ends with the
   buffer holding the upload's user message and, last and in place of any
   progress message, a model message with the icon error and the error's
   text. *)
C31_UploadErrorShown ==
    [][\A u \in Uploads :
          (/\ uploads[u].pc \in {"upload", "poll"}
           /\ uploads'[u].pc = "done"
           /\ uploads[u].pc = "upload" \/ uploads'[u].outcome = "threw")
          => LET last == chatContext'[Len(chatContext')]
             IN /\ Len(chatContext') = 2
                /\ chatContext'[1] = uploads[u].newContext[1]
                /\ last.role = "model"
                /\ last.parts[1].icon = "error"
                /\ plain(last)
                /\ uploads'[u].outcome = "threw"
                   => last = uploadErrorMsg(Error(uploads'[u].thrown))]_vars

C31_Witness ==
    \E u \in Uploads :
        /\ uploads[u].pc = "done"
        /\ uploads[u].outcome = "threw"
        /\ uploads[u].thrown = <<"Polling timeout">>
        /\ Len(uploads[u].callbacks) >= 2
        /\ chatContext = uploads[u].newContext
                            \o <<uploadErrorMsg(Error(<<"Polling timeout">>))>>

C31_WitnessNetwork ==
    \E u \in Uploads :
        /\ uploads[u].pc = "done"
        /\ uploads[u].outcome = "threw"
        /\ uploads[u].thrown = <<"Network Error">>
        /\ chatContext = uploads[u].newContext
                            \o <<uploadErrorMsg(Error(<<"Network Error">>))>>

C31_WitnessRequest ==
    \E u \in Uploads :
        /\ uploads[u].pc = "done"
        /\ uploads[u].requests = 0
        /\ ~uploads[u].refreshed
        /\ chatContext = uploads[u].newContext
                            \o <<uploadErrorMsg(Error(<<"Network Error">>))>>

-----------------------------------------------------------------------------
(* The documents and the sidebar *)

(* C32: no step of an Upload or of a Delete document, whether the flow
   succeeds or fails, writes to the persisted conversation store: the stored
   list, with the messages of the conversation that was active when the flow
   began, is the same before and after. *)
C32_DocumentsDoNotPersist ==
    [][(uploads' # uploads \/ deletes' # deletes)
       => /\ convStorage' = convStorage
          /\ oldChatStorage' = oldChatStorage
          /\ conversations' = conversations]_vars

C32_Witness ==
    \E d \in Deletes, f \in Sends :
        /\ deletes[d].pc = "done"
        /\ deletes[d].refreshed
        /\ sends[f].pc = "done"
        /\ currentConversationId = null
        /\ convStorage.has
        /\ \E i \in 1..Len(convStorage.value) :
               /\ convStorage.value[i].id = sends[f].convId
               /\ Len(convStorage.value[i].messages) = 2

C32_WitnessUpload ==
    \E u \in Uploads, f \in Sends :
        /\ uploads[u].pc = "done"
        /\ uploads[u].outcome = "threw"
        /\ sends[f].pc = "done"
        /\ currentConversationId = null
        /\ convStorage.has
        /\ \E i \in 1..Len(convStorage.value) :
               /\ convStorage.value[i].id = sends[f].convId
               /\ Len(convStorage.value[i].messages) = 2

(* the list without its first record of the id *)
withoutFirst(convs, id) ==
    LET idx == findIndex(convs, id)
    IN SubSeq(convs, 1, idx - 1) \o SubSeq(convs, idx + 1, Len(convs))

stored(storage) == IF storage.has THEN storage.value ELSE <<>>

(* C33: Delete conversation of an id of the list removes that record, and no
   other, from the in-memory list and from the persisted store; when the id
   is the active one the active id becomes null and the buffer empty, and
   otherwise both stay as they are; for an id that is not in the list the
   handler returns at once (it takes no step), so nothing changes and nothing
   is saved. *)
C33_DeletesOneRecord ==
    [][\A id \in ids(conversations) : \A full \in BOOLEAN :
          handleDeleteConversation(id, full)
          => /\ conversations' = withoutFirst(conversations, id)
             /\ id \notin ids(conversations')
             /\ stored(convStorage') = withoutFirst(stored(convStorage), id)
             /\ id \notin ids(stored(convStorage'))
             /\ IF currentConversationId = id
                THEN currentConversationId' = null /\ chatContext' = <<>>
                ELSE UNCHANGED <<currentConversationId, chatContext>>]_vars

(* C34: New conversation sets the active id to null and the buffer to empty
   and leaves the in-memory list and the persisted store as they are: it
   saves nothing. *)
C34_NewChatResets ==
    [][handleNewChat
       => /\ currentConversationId' = null
          /\ chatContext' = <<>>
          /\ conversations' = conversations
          /\ convStorage' = convStorage
          /\ oldChatStorage' = oldChatStorage
          /\ faults' = faults]_vars

C34_Witness ==
    \E f \in Sends :
        /\ sends[f].pc = "fetch"
        /\ sends[f].newChatMid
        /\ navigations = 1
        /\ \A u \in Uploads : uploads[u].pc = "idle"
        /\ currentConversationId = null
        /\ chatContext = <<>>
        /\ ids(conversations) = {sends[f].convId}
        /\ stored(convStorage) = conversations

(* a flow is in progress *)
uploading(u) == uploads[u].pc \in {"upload", "poll", "wait", "refresh"}

deleting(d) == deletes[d].pc \in {"delete", "refresh"}

Idle ==
    /\ \A f \in Sends : ~inFlight(sends[f])
    /\ \A u \in Uploads : ~uploading(u)
    /\ \A d \in Deletes : ~deleting(d)
    /\ ~isFileUploading

(* C35: when every call of a collaborator returns or fails in the end, every
   flow that has begun (Send, Upload, Delete document; Delete conversation is
   one step) comes to its end and the session is Idle again; the flag that an
   Upload sets when it begins is cleared on each of its ways out: no task id,
   final status done, final status failed, error thrown. *)
C35_FlowsEnd ==
    /\ \A f \in Sends : inFlight(sends[f]) ~> sends[f].pc = "done"
    /\ \A u \in Uploads : uploading(u) ~> uploads[u].pc = "done"
    /\ \A d \in Deletes : deleting(d) ~> deletes[d].pc = "done"
    /\ ~Idle ~> Idle
    /\ [][\A u \in Uploads :
             (uploading(u) /\ uploads'[u].pc = "done") => ~isFileUploading']_vars

C35_Witness ==
    /\ Idle
    /\ \E u \in Uploads :
           /\ uploads[u].pc = "done"
           /\ uploads[u].outcome = "returned"
           /\ uploads[u].returned.status = "failed"
    /\ \E d \in Deletes : deletes[d].pc = "done" /\ deletes[d].refreshed

C35_WitnessSend ==
    /\ Idle
    /\ \E u \in Uploads : uploads[u].pc = "done" /\ uploads[u].outcome = "threw"
    /\ \E f \in Sends : sends[f].pc = "done" /\ Len(sends[f].chunks) = MaxChunks

(* the record of the id in the list holds these messages *)
holds(convs, id, messages) ==
    \E i \in 1..Len(convs) : convs[i].id = id /\ convs[i].messages = messages

(* C36: when localStorage refuses a write during a Send, the failure stays
   inside saveConversations and the flow goes on: the Send that could not
   save its first update still calls streamChatMessage, the Send whose last
   save is refused still ends with the user message and the model reply in
   the buffer, and in both cases the in-memory list has the update that the
   store has not. *)
C36_RefusedSaveSwallowed ==
    [][\A f \in Sends :
          (faults' = faults + 1 /\ sends'[f].pc # sends[f].pc)
          => LET s == sends'[f]
                 n == Len(s.newContext)
             IN /\ convStorage' = convStorage
                /\ s.newContext[n] = userMessage(s.text)
                /\ sends[f].pc = "idle"
                   => /\ s.pc = "fetch"
                      /\ chatContext' = s.newContext \o <<loadingMsg>>
                      /\ holds(conversations', s.convId, s.newContext)
                /\ sends[f].pc # "idle"
                   => /\ s.pc = "done"
                      /\ Len(chatContext') = n + 1
                      /\ SubSeq(chatContext', 1, n) = s.newContext
                      /\ chatContext'[n + 1].role = "model"
                      /\ s.error = <<>>
                         => chatContext'[n + 1]
                               = Message("model", s.accumulatedText, "none")
                      /\ holds(conversations', s.convId, chatContext')]_vars

(* C37: no message of the persisted store carries an uploadStatus, in any
   reachable state, a Send begun while an Upload polls and shows its progress
   message included. *)
C37_NoPersistedStatus ==
    \A i \in 1..Len(stored(convStorage)) :
        \A k \in 1..Len(stored(convStorage)[i].messages) :
            plain(stored(convStorage)[i].messages[k])

-----------------------------------------------------------------------------
(* The poller's result *)

last(seq) == seq[Len(seq)]

(* C38: whenever pollUploadStatus returns, the record it returns has a final
   status (done or failed) and is the last record it passed to the callback,
   for a final answer of the server and for the record made up for a task
   that is not found alike; in the App's poller and in the legacy script's. *)
C38_ReturnsLastUpdate ==
    /\ \A u \in Uploads :
           uploads[u].outcome = "returned"
           => /\ terminal(uploads[u].returned)
              /\ uploads[u].callbacks # <<>>
              /\ uploads[u].returned = last(uploads[u].callbacks)
    /\ legacyPoll.outcome = "returned"
       => /\ terminal(legacyPoll.returned)
          /\ legacyPoll.delivered # <<>>
          /\ legacyPoll.returned = last(legacyPoll.delivered)

(* C39: the upload-in-progress flag is true whenever an Upload is in
   progress, two Uploads that overlap included: the end of one Upload does
   not clear the flag while another is still uploading or polling. *)
C39_FlagWhileUploading ==
    (\E u \in Uploads : uploading(u)) => isFileUploading

-----------------------------------------------------------------------------
(* Loads of the IndexedDB store that overlap *)

(* the records of the table that hold the conversation, whatever their id *)
copies(tbl, r) ==
    { k \in DOMAIN tbl : tbl[k].title = r.title /\ tbl[k].messages = r.messages }

(* two calls of loadConversations have ended that both found the flag unset *)
bothMigrated(k, l) ==
    /\ k # l
    /\ dbLoads[k].pc = "done" /\ dbLoads[l].pc = "done"
    /\ dbLoads[k].pending /\ dbLoads[l].pending
    /\ \A m \in Loads \ {k, l} : dbLoads[m].pc = "idle"

(* C40: when two calls of loadConversations of the IndexedDB store overlap
   while the migration is pending, the migration takes effect once: after the
   two calls every migrated conversation is in the table once, the flag is
   set, and the two calls have returned the same list. *)
C40_OverlappingLoadsMigrateOnce ==
    \A k \in Loads, l \in Loads :
        bothMigrated(k, l)
        => /\ migrationDone
           /\ ~(dbLoads[k].added /\ dbLoads[l].added)
           /\ \A i \in 1..Len(dbLoads[k].existing) :
                  Cardinality(copies(table, dbLoads[k].existing[i])) = 1
           /\ dbLoads[k].result = dbLoads[l].result

=============================================================================
